---- MODULE Spec2Model ----
(***************************************************************************)
(* Scene-graph transform hierarchy of opengl-experiments: Physic, Node,     *)
(* Scene and MatrixStack (src/src/Main).                                    *)
(*                                                                          *)
(* Numbers.  The program computes in float with GLM.  The model computes    *)
(* the same formulas exactly, on inputs for which every result is an        *)
(* integer or an integer over a square root:                                *)
(*   - a glm::vec3 is a triple of integers, a glm::mat4 a 4x4 integer       *)
(*     matrix written row by row (row r, column c is GLM's m[c][r]);        *)
(*   - a glm::fquat is a record [w, x, y, z, d] standing for the            *)
(*     quaternion (w, x, y, z) / sqrt(d), kept in lowest terms by Canon;    *)
(*   - an angle is an integer number of quarter turns (1 is pi/2).          *)
(* Rounding is not modelled.                                                *)
(***************************************************************************)
EXTENDS Integers, Sequences, FiniteSets, TLC

\* ------------------------------------------------------------------ bounds
NumNodes == 3      \* nodes that exist (constructed, attached or not)
MaxOps == 3        \* pose and speed calls made on the model node in one run
MaxLoads == 2
MaxScopes == 3     \* Push guards alive at once in a client of MatrixStack
MaxFrames == 2     \* frames the render loop displays in one run
MaxTick == 8       \* the clock stops at this tick
MaxCalls == 5      \* calls of Timer::isTimeElapsed in one run
MaxBelowMs == 20   \* how far below its default the prediction lookahead is taken

Nodes == 1..NumNodes
Meshes == {"cube", "plane"}

\* ------------------------------------------------------------------ glm
Abs(i) == IF i < 0 THEN -i ELSE i

\* glm::vec3() : the zero vector (GLM of the repository's time initialises it)
Vec3Zero == <<0, 0, 0>>

\* glm::mat4() and glm::mat4(1.0f) : the identity
Mat4Identity ==
    << <<1, 0, 0, 0>>,
       <<0, 1, 0, 0>>,
       <<0, 0, 1, 0>>,
       <<0, 0, 0, 1>> >>

\* glm::fquat() : the identity quaternion (w = 1)
QuatIdentity == [w |-> 1, x |-> 0, y |-> 0, z |-> 0, d |-> 1]

\* Lowest terms of (w,x,y,z)/sqrt(d): the same float value, one representation.
Canon(q) ==
    LET m == Abs(q.w) + Abs(q.x) + Abs(q.y) + Abs(q.z)
        Ks == {k \in 1..(IF m = 0 THEN 1 ELSE m) :
                  /\ q.w % k = 0 /\ q.x % k = 0 /\ q.y % k = 0 /\ q.z % k = 0
                  /\ q.d % (k * k) = 0}
        k == CHOOSE a \in Ks : \A b \in Ks : b <= a
    IN  IF m = 0 THEN [w |-> 0, x |-> 0, y |-> 0, z |-> 0, d |-> 1]
        ELSE [w |-> q.w \div k, x |-> q.x \div k, y |-> q.y \div k,
              z |-> q.z \div k, d |-> q.d \div (k * k)]

\* glm::fquat(w, x, y, z) from four floats (here integers)
Quat(w, x, y, z) == [w |-> w, x |-> x, y |-> y, z |-> z, d |-> 1]

\* operator*(fquat, fquat) : the Hamilton product p * q
QuatMul(p, q) ==
    Canon([w |-> p.w * q.w - p.x * q.x - p.y * q.y - p.z * q.z,
           x |-> p.w * q.x + p.x * q.w + p.y * q.z - p.z * q.y,
           y |-> p.w * q.y + p.y * q.w + p.z * q.x - p.x * q.z,
           z |-> p.w * q.z + p.z * q.w + p.x * q.y - p.y * q.x,
           d |-> p.d * q.d])

\* glm::normalize(fquat) : q / length(q), the identity for a zero length
QuatNormalize(q) ==
    LET len2 == q.w * q.w + q.x * q.x + q.y * q.y + q.z * q.z
    IN  IF len2 = 0 THEN QuatIdentity
        ELSE Canon([w |-> q.w, x |-> q.x, y |-> q.y, z |-> q.z, d |-> len2])

\* cos and sin of half an angle of k quarter turns, over sqrt(d)
HalfAngle(k) ==
    LET r == k % 8
    IN  CASE r = 0 -> [c |-> 1, s |-> 0, d |-> 1]
          [] r = 1 -> [c |-> 1, s |-> 1, d |-> 2]
          [] r = 2 -> [c |-> 0, s |-> 1, d |-> 1]
          [] r = 3 -> [c |-> -1, s |-> 1, d |-> 2]
          [] r = 4 -> [c |-> -1, s |-> 0, d |-> 1]
          [] r = 5 -> [c |-> -1, s |-> -1, d |-> 2]
          [] r = 6 -> [c |-> 0, s |-> -1, d |-> 1]
          [] r = 7 -> [c |-> 1, s |-> -1, d |-> 2]

\* glm::angleAxis(angle, axis) : (cos(a/2), axis * sin(a/2)), axis not normalised
angleAxis(k, v) ==
    LET h == HalfAngle(k)
    IN  Canon([w |-> h.c, x |-> v[1] * h.s, y |-> v[2] * h.s, z |-> v[3] * h.s,
               d |-> h.d])

VecAdd(a, b) == <<a[1] + b[1], a[2] + b[2], a[3] + b[3]>>
VecScale(a, s) == <<a[1] * s, a[2] * s, a[3] * s>>
Cross(a, b) ==
    <<a[2] * b[3] - a[3] * b[2], a[3] * b[1] - a[1] * b[3], a[1] * b[2] - a[2] * b[1]>>

\* Faulty variant: the vector is not rotated.
QuatRotate_none(q, v) == v

\* operator*(fquat, vec3) : v + 2w (u x v) + 2 u x (u x v), u the vector part
QuatRotate(q, v) ==
    LET u == <<q.x, q.y, q.z>>
        uv == Cross(u, v)
        uuv == Cross(u, uv)
        s == VecAdd(VecScale(v, q.d), VecAdd(VecScale(uv, 2 * q.w), VecScale(uuv, 2)))
    IN  <<s[1] \div q.d, s[2] \div q.d, s[3] \div q.d>>

\* glm::mat3_cast(fquat), row by row
mat3_cast(q) ==
    LET xx == q.x * q.x  yy == q.y * q.y  zz == q.z * q.z
        xy == q.x * q.y  xz == q.x * q.z  yz == q.y * q.z
        wx == q.w * q.x  wy == q.w * q.y  wz == q.w * q.z
        d == q.d
    IN  << <<(d - 2 * (yy + zz)) \div d, (2 * (xy - wz)) \div d, (2 * (xz + wy)) \div d>>,
           <<(2 * (xy + wz)) \div d, (d - 2 * (xx + zz)) \div d, (2 * (yz - wx)) \div d>>,
           <<(2 * (xz - wy)) \div d, (2 * (yz + wx)) \div d, (d - 2 * (xx + yy)) \div d>> >>

\* glm::mat4_cast(fquat) : the rotation in the upper left 3x3 of an identity
mat4_cast(q) ==
    LET r == mat3_cast(q)
    IN  << <<r[1][1], r[1][2], r[1][3], 0>>,
           <<r[2][1], r[2][2], r[2][3], 0>>,
           <<r[3][1], r[3][2], r[3][3], 0>>,
           <<0, 0, 0, 1>> >>

\* operator*(mat3, vec3)
Mat3MulVec(m, v) ==
    <<m[1][1] * v[1] + m[1][2] * v[2] + m[1][3] * v[3],
      m[2][1] * v[1] + m[2][2] * v[2] + m[2][3] * v[3],
      m[3][1] * v[1] + m[3][2] * v[2] + m[3][3] * v[3]>>

\* operator*(mat4, mat4), row by row
Mat4MulRow(ar, b) ==
    <<ar[1] * b[1][1] + ar[2] * b[2][1] + ar[3] * b[3][1] + ar[4] * b[4][1],
      ar[1] * b[1][2] + ar[2] * b[2][2] + ar[3] * b[3][2] + ar[4] * b[4][2],
      ar[1] * b[1][3] + ar[2] * b[2][3] + ar[3] * b[3][3] + ar[4] * b[4][3],
      ar[1] * b[1][4] + ar[2] * b[2][4] + ar[3] * b[3][4] + ar[4] * b[4][4]>>

Mat4Mul(a, b) ==
    <<Mat4MulRow(a[1], b), Mat4MulRow(a[2], b), Mat4MulRow(a[3], b), Mat4MulRow(a[4], b)>>

\* glm::translate(m, v) : m * T(v), which changes the last column of m only
translateRow(mr, v) ==
    <<mr[1], mr[2], mr[3], mr[1] * v[1] + mr[2] * v[2] + mr[3] * v[3] + mr[4]>>

translate(m, v) ==
    <<translateRow(m[1], v), translateRow(m[2], v), translateRow(m[3], v),
      translateRow(m[4], v)>>

\* ------------------------------------------------------------------ Node statics
UNIT_X_RIGHT == <<1, 0, 0>>
UNIT_Y_UP == <<0, 1, 0>>
UNIT_Z_FRONT == <<0, 0, 1>>

rotateRightMultiply(aOrientation, aAngleRad, aAxis) ==
    QuatNormalize(QuatMul(aOrientation, angleAxis(aAngleRad, aAxis)))

\* Faulty variant: the rotation is multiplied on the right of the orientation.
rotateLeftMultiply_rightSide(aOrientation, aAngleRad, aAxis) ==
    QuatNormalize(QuatMul(aOrientation, angleAxis(aAngleRad, aAxis)))

rotateLeftMultiply(aOrientation, aAngleRad, aAxis) ==
    QuatNormalize(QuatMul(angleAxis(aAngleRad, aAxis), aOrientation))

\* glm's rotation of v by q is exact on the orientations of the model
PitchQuat(q, aAngle) == rotateLeftMultiply(q, aAngle, QuatRotate(q, UNIT_X_RIGHT))
YawQuat(q, aAngle) == rotateLeftMultiply(q, aAngle, QuatRotate(q, UNIT_Y_UP))
RollQuat(q, aAngle) == rotateLeftMultiply(q, aAngle, QuatRotate(q, UNIT_Z_FRONT))

\* ------------------------------------------------------------------ state
VARIABLES
    mChildrenList,           \* Node::mChildrenList, per node
    mMeshesList,             \* Node::mMeshesList, per node
    mPhysic,                 \* Node::mPhysic, per node
    mOrientationQuaternion,  \* Node::mOrientationQuaternion, per node
    mTranslationVector,      \* Node::mTranslationVector, per node
    mMatrix,                 \* Node::mMatrix, per node
    mbMatrixDirty,           \* Node::mbMatrixDirty, per node
    mRootNodes,              \* Scene::mRootNodes
    mStack,                  \* MatrixStack::mStack (top is the last element)
    mCurrentMatrix,          \* MatrixStack::mCurrentMatrix
    frames,                  \* the call stack of the traversal or client in progress
    raised,                  \* an error is propagating up the call stack
    underflow,               \* pop() ran on an empty std::stack (undefined behaviour)
    trace,                   \* what the traversal did, in order (uploads, mesh draws)
    drawCall,                \* the Scene::draw call in progress or last made
    lastCall,                \* the Node call that returned last
    ret,                     \* what the last getMatrix() returned
    reads,                   \* getMatrix() calls since the last pose change (0, 1, 2+)
    nOps,                    \* calls counted against MaxOps, MaxLoads or MaxAttach
    hist,                    \* the calls made on the model node, each with the state before it
    destroyed,               \* how many times ~Node ran, per node
    lifetime,                \* of the Renderer: "initScene", "running" or "destroyed"
    shared,                  \* a call handed over a node that already had an owner or is an ancestor
    loop,                    \* Input::displayCallback: position, frames done, poses around Scene::move
    clock,                   \* what Utils::Time::getTickUs() returns now, in microseconds
    timer,                   \* the Utils::Timer object (Input::mCubeRotationTimer)
    hmd                      \* the OculusHMD object and the sensor fusion it may hold

poseVars == <<mOrientationQuaternion, mTranslationVector, mMatrix, mbMatrixDirty>>
treeVars == <<mChildrenList, mMeshesList, mRootNodes>>
stackVars == <<mStack, mCurrentMatrix>>
drawVars == <<mStack, mCurrentMatrix, frames, raised, underflow, trace, drawCall>>
histVars == <<hist>>
ownVars == <<destroyed, lifetime, shared>>
loopVars == <<loop>>
utilVars == <<clock, timer, hmd>>
sceneVars == <<treeVars, mPhysic, poseVars, drawVars, lastCall, ret, reads, nOps, ownVars,
               loopVars>>
callVars == <<lastCall, ret, reads, histVars, utilVars, ownVars, loopVars>>
vars == <<mChildrenList, mMeshesList, mPhysic, mOrientationQuaternion, mTranslationVector,
          mMatrix, mbMatrixDirty, mRootNodes, mStack, mCurrentMatrix, frames, raised,
          underflow, trace, drawCall, lastCall, ret, reads, nOps, hist, destroyed,
          lifetime, shared, loop, clock, timer, hmd>>

\* Faulty variant: a new Physic is in motion along X.
PhysicNew_inMotion ==
    [mbInMotion |-> TRUE, mLinearSpeed |-> <<1, 0, 0>>, mRotationalSpeed |-> <<0, 0, 0>>]

\* Physic::Physic() : not in motion, both speeds the default glm::vec3
PhysicNew ==
    [mbInMotion |-> FALSE, mLinearSpeed |-> Vec3Zero, mRotationalSpeed |-> Vec3Zero]

NoCall == [op |-> "none", node |-> 0, recomputed |-> FALSE]
NoDraw == [status |-> "none", seed |-> Mat4Identity, depth |-> 0]

\* Input::displayCallback has not run yet
NoLoop ==
    [pc |-> "idle", frame |-> 0, moved |-> 0, drawn |-> 0, i |-> 0, dt |-> 0,
     pre |-> [q |-> [n \in Nodes |-> QuatIdentity], t |-> [n \in Nodes |-> Vec3Zero]],
     post |-> [q |-> [n \in Nodes |-> QuatIdentity], t |-> [n \in Nodes |-> Vec3Zero]]]

\* no Utils::Timer constructed yet
NoTimer == [state |-> "none", mElapsedTimeUs |-> 0, mIntervalUs |-> 0, mStartTickUs |-> 0]

\* the OVR::SensorFusion object as its constructor leaves it
FusionNew == [prediction |-> 0, orientation |-> <<1, 0, 0, 0>>]

\* no OculusHMD constructed yet
NoHMD ==
    [state |-> "none", mSensorPtr |-> FALSE, mSensorFusionPtr |-> FALSE,
     mPredictionLookaheadMs |-> 0, fusion |-> FusionNew, nullDeref |-> FALSE,
     call |-> [op |-> "none", arg |-> 0, before |-> 0], ret |-> QuatIdentity]

\* Every Node as Node::Node leaves it, an empty Scene, no traversal in progress.
Init ==
    /\ mChildrenList = [n \in Nodes |-> <<>>]
    /\ mMeshesList = [n \in Nodes |-> <<>>]
    /\ mPhysic = [n \in Nodes |-> PhysicNew]
    /\ mOrientationQuaternion = [n \in Nodes |-> QuatIdentity]
    /\ mTranslationVector = [n \in Nodes |-> Vec3Zero]
    /\ mMatrix = [n \in Nodes |-> Mat4Identity]
    /\ mbMatrixDirty = [n \in Nodes |-> FALSE]
    /\ mRootNodes = <<>>
    /\ mStack = <<>>
    /\ mCurrentMatrix = Mat4Identity
    /\ frames = <<>>
    /\ raised = FALSE
    /\ underflow = FALSE
    /\ trace = <<>>
    /\ drawCall = NoDraw
    /\ lastCall = NoCall
    /\ ret = Mat4Identity
    /\ reads = 0
    /\ nOps = 0
    /\ hist = <<>>
    /\ destroyed = [n \in Nodes |-> 0]
    /\ lifetime = "initScene"
    /\ shared = FALSE
    /\ loop = NoLoop
    /\ clock = 0
    /\ timer = NoTimer
    /\ hmd = NoHMD

\* ------------------------------------------------------------------ Physic
Vec3NonZero(v) == (0 # v[1]) \/ (0 # v[2]) \/ (0 # v[3])

\* Faulty variant: the flag is recomputed from both stored speeds.
Physic_setLinearSpeed_anySpeed(p, aLinearSpeed) ==
    [p EXCEPT !.mbInMotion = Vec3NonZero(aLinearSpeed) \/ Vec3NonZero(p.mRotationalSpeed),
              !.mLinearSpeed = aLinearSpeed]

Physic_setLinearSpeed(p, aLinearSpeed) ==
    [p EXCEPT !.mbInMotion = Vec3NonZero(aLinearSpeed), !.mLinearSpeed = aLinearSpeed]

Physic_setRotationalSpeed(p, aRotationalSpeed) ==
    [p EXCEPT !.mbInMotion = Vec3NonZero(aRotationalSpeed),
              !.mRotationalSpeed = aRotationalSpeed]

Physic_isInMotion(p) == p.mbInMotion

\* ------------------------------------------------------------------ Node: pose
\* Faulty variant: the translation is added along the world axes.
Node_move_worldAxes(n, aTranslation) ==
    /\ mTranslationVector' = [mTranslationVector EXCEPT ![n] = VecAdd(@, aTranslation)]
    /\ mbMatrixDirty' = [mbMatrixDirty EXCEPT ![n] = TRUE]
    /\ UNCHANGED <<mOrientationQuaternion, mMatrix, mPhysic, treeVars, drawVars>>

\* void Node::move(const glm::vec3& aTranslation)
Node_move(n, aTranslation) ==
    LET rotations == mat3_cast(mOrientationQuaternion[n])
        relativeTranslation == Mat3MulVec(rotations, aTranslation)
    IN  /\ mTranslationVector' =
              [mTranslationVector EXCEPT ![n] = VecAdd(@, relativeTranslation)]
        /\ mbMatrixDirty' = [mbMatrixDirty EXCEPT ![n] = TRUE]
        /\ UNCHANGED <<mOrientationQuaternion, mMatrix, mPhysic, treeVars, drawVars>>

\* void Node::pitch(float aAngle)
Node_pitch(n, aAngle) ==
    /\ mOrientationQuaternion' =
          [mOrientationQuaternion EXCEPT ![n] = PitchQuat(@, aAngle)]
    /\ mbMatrixDirty' = [mbMatrixDirty EXCEPT ![n] = TRUE]
    /\ UNCHANGED <<mTranslationVector, mMatrix, mPhysic, treeVars, drawVars>>

\* Faulty variant: yaw turns the node and forgets the flag.
Node_yaw_noDirty(n, aAngle) ==
    /\ mOrientationQuaternion' =
          [mOrientationQuaternion EXCEPT ![n] = YawQuat(@, aAngle)]
    /\ UNCHANGED <<mbMatrixDirty, mTranslationVector, mMatrix, mPhysic, treeVars, drawVars>>

\* void Node::yaw(float aAngle)
Node_yaw(n, aAngle) ==
    /\ mOrientationQuaternion' =
          [mOrientationQuaternion EXCEPT ![n] = YawQuat(@, aAngle)]
    /\ mbMatrixDirty' = [mbMatrixDirty EXCEPT ![n] = TRUE]
    /\ UNCHANGED <<mTranslationVector, mMatrix, mPhysic, treeVars, drawVars>>

\* void Node::roll(float aAngle)
Node_roll(n, aAngle) ==
    /\ mOrientationQuaternion' =
          [mOrientationQuaternion EXCEPT ![n] = RollQuat(@, aAngle)]
    /\ mbMatrixDirty' = [mbMatrixDirty EXCEPT ![n] = TRUE]
    /\ UNCHANGED <<mTranslationVector, mMatrix, mPhysic, treeVars, drawVars>>

\* Faulty variant: the quaternion is normalised before it is stored.
Node_setOrientationQuaternion_normalized(n, w, x, y, z) ==
    /\ mOrientationQuaternion' =
          [mOrientationQuaternion EXCEPT ![n] = QuatNormalize(Quat(w, x, y, z))]
    /\ mbMatrixDirty' = [mbMatrixDirty EXCEPT ![n] = TRUE]
    /\ UNCHANGED <<mTranslationVector, mMatrix, mPhysic, treeVars, drawVars>>

\* void Node::setOrientationQuaternion(float w, float x, float y, float z)
Node_setOrientationQuaternion(n, w, x, y, z) ==
    /\ mOrientationQuaternion' = [mOrientationQuaternion EXCEPT ![n] = Quat(w, x, y, z)]
    /\ mbMatrixDirty' = [mbMatrixDirty EXCEPT ![n] = TRUE]
    /\ UNCHANGED <<mTranslationVector, mMatrix, mPhysic, treeVars, drawVars>>

\* void Node::setTranslationVector(float x, float y, float z)
Node_setTranslationVector(n, x, y, z) ==
    /\ mTranslationVector' = [mTranslationVector EXCEPT ![n] = <<x, y, z>>]
    /\ mbMatrixDirty' = [mbMatrixDirty EXCEPT ![n] = TRUE]
    /\ UNCHANGED <<mOrientationQuaternion, mMatrix, mPhysic, treeVars, drawVars>>

\* Faulty variant: setting the linear speed flags the matrix as dirty.
Node_setLinearSpeed_dirty(n, aLinearSpeed) ==
    /\ mPhysic' = [mPhysic EXCEPT ![n] = Physic_setLinearSpeed(@, aLinearSpeed)]
    /\ mbMatrixDirty' = [mbMatrixDirty EXCEPT ![n] = TRUE]
    /\ UNCHANGED <<mOrientationQuaternion, mTranslationVector, mMatrix, treeVars, drawVars>>

\* void Node::setLinearSpeed(const glm::vec3& aLinearSpeed)
Node_setLinearSpeed(n, aLinearSpeed) ==
    /\ mPhysic' = [mPhysic EXCEPT ![n] = Physic_setLinearSpeed(@, aLinearSpeed)]
    /\ UNCHANGED <<poseVars, treeVars, drawVars>>

\* void Node::setRotationalSpeed(const glm::vec3& aRotationalSpeed)
Node_setRotationalSpeed(n, aRotationalSpeed) ==
    /\ mPhysic' = [mPhysic EXCEPT ![n] = Physic_setRotationalSpeed(@, aRotationalSpeed)]
    /\ UNCHANGED <<poseVars, treeVars, drawVars>>

\* ------------------------------------------------------------------ Node: matrix
\* translation * rotation, the value Node::getMatrix computes when it recomputes
ComposedMatrix(aTranslation, aOrientation) ==
    LET translation == translate(Mat4Identity, aTranslation)
        rotation == mat4_cast(aOrientation)
    IN  Mat4Mul(translation, rotation)

\* Faulty variant: the test of the flag is inverted, a dirty node returns its old matrix.
getMatrix_mMatrix_inverted(n) ==
    IF ~mbMatrixDirty[n]
    THEN ComposedMatrix(mTranslationVector[n], mOrientationQuaternion[n])
    ELSE mMatrix[n]

\* Faulty variant: a recomputation is multiplied onto the cached matrix.
getMatrix_mMatrix_accumulate(n) ==
    IF mbMatrixDirty[n]
    THEN Mat4Mul(mMatrix[n], ComposedMatrix(mTranslationVector[n], mOrientationQuaternion[n]))
    ELSE mMatrix[n]

\* mMatrix after Node::getMatrix : recomputed when the flag is set, else kept
getMatrix_mMatrix(n) ==
    IF mbMatrixDirty[n]
    THEN ComposedMatrix(mTranslationVector[n], mOrientationQuaternion[n])
    ELSE mMatrix[n]

\* mbMatrixDirty after Node::getMatrix : the function never writes the flag
getMatrix_mbMatrixDirty(n) == mbMatrixDirty[n]

\* const glm::mat4& Node::getMatrix() const
Node_getMatrix(n) ==
    /\ mMatrix' = [mMatrix EXCEPT ![n] = getMatrix_mMatrix(n)]
    /\ mbMatrixDirty' = [mbMatrixDirty EXCEPT ![n] = getMatrix_mbMatrixDirty(n)]
    /\ UNCHANGED <<mOrientationQuaternion, mTranslationVector, mPhysic, treeVars,
                   drawVars>>

\* ------------------------------------------------------------------ Node: time step
\* The pose of node n after its own time step: translation advanced by
\* linearSpeed * dt, orientation by pitch, yaw and roll of angularSpeed * dt,
\* flag set; a node that is not in motion keeps its pose and its flag.
\* Faulty variant: the step stops at the node and leaves its children where they are.
MoveTree_noChildren(st, n, aDeltaTime) ==
    IF Physic_isInMotion(mPhysic[n])
    THEN [q |-> st.q,
          t |-> [st.t EXCEPT ![n] = VecAdd(@, VecScale(mPhysic[n].mLinearSpeed, aDeltaTime))],
          dirty |-> [st.dirty EXCEPT ![n] = TRUE]]
    ELSE st

\* Faulty variant: the speed is turned by the node's orientation, as move(vector) does.
MovedPose_rotated(st, n, aDeltaTime) ==
    IF Physic_isInMotion(mPhysic[n])
    THEN LET lin == Mat3MulVec(mat3_cast(st.q[n]), mPhysic[n].mLinearSpeed)
             rot == mPhysic[n].mRotationalSpeed
             q1 == PitchQuat(st.q[n], rot[1] * aDeltaTime)
             q2 == YawQuat(q1, rot[2] * aDeltaTime)
             q3 == RollQuat(q2, rot[3] * aDeltaTime)
         IN  [q |-> [st.q EXCEPT ![n] = q3],
              t |-> [st.t EXCEPT ![n] = VecAdd(@, VecScale(lin, aDeltaTime))],
              dirty |-> [st.dirty EXCEPT ![n] = TRUE]]
    ELSE st

\* Faulty variant: a step advances by the speed, whatever the time elapsed.
MovedPose_unitStep(st, n, aDeltaTime) ==
    IF Physic_isInMotion(mPhysic[n])
    THEN [q |-> st.q,
          t |-> [st.t EXCEPT ![n] = VecAdd(@, mPhysic[n].mLinearSpeed)],
          dirty |-> [st.dirty EXCEPT ![n] = TRUE]]
    ELSE st

MovedPose(st, n, aDeltaTime) ==
    IF Physic_isInMotion(mPhysic[n])
    THEN LET lin == mPhysic[n].mLinearSpeed
             rot == mPhysic[n].mRotationalSpeed
             q1 == PitchQuat(st.q[n], rot[1] * aDeltaTime)
             q2 == YawQuat(q1, rot[2] * aDeltaTime)
             q3 == RollQuat(q2, rot[3] * aDeltaTime)
         IN  [q |-> [st.q EXCEPT ![n] = q3],
              t |-> [st.t EXCEPT ![n] = VecAdd(@, VecScale(lin, aDeltaTime))],
              dirty |-> [st.dirty EXCEPT ![n] = TRUE]]
    ELSE st

RECURSIVE MoveTree(_, _, _)
RECURSIVE MoveList(_, _, _, _)
\* Node::move(float) on node n, then on its children in list order
MoveTree(st, n, aDeltaTime) ==
    MoveList(MovedPose(st, n, aDeltaTime), mChildrenList[n], 1, aDeltaTime)

\* the loop over a list of nodes from index i on
MoveList(st, list, i, aDeltaTime) ==
    IF i > Len(list) THEN st
    ELSE MoveList(MoveTree(st, list[i], aDeltaTime), list, i + 1, aDeltaTime)

PoseState ==
    [q |-> mOrientationQuaternion, t |-> mTranslationVector, dirty |-> mbMatrixDirty]

\* void Node::move(float aDeltaTime)
Node_moveDeltaTime(n, aDeltaTime) ==
    LET st == MoveTree(PoseState, n, aDeltaTime)
    IN  /\ mOrientationQuaternion' = st.q
        /\ mTranslationVector' = st.t
        /\ mbMatrixDirty' = st.dirty
        /\ UNCHANGED <<mMatrix, mPhysic, treeVars, drawVars>>

\* ------------------------------------------------------------------ inputs
\* Renderer::mModelPtr, the node the input handlers act on
mModelPtr == CHOOSE n \in Nodes : \A m \in Nodes : n <= m

MoveVectors == {UNIT_X_RIGHT, UNIT_Z_FRONT}
Angles == {1, -1}
LoadedQuats == {<<0, 1, 0, 0>>, <<2, 0, 0, 0>>}
LoadedVecs == {<<1, 0, 2>>}
LinearSpeeds == {Vec3Zero, <<1, 0, 0>>}
RotationalSpeeds == {Vec3Zero, <<0, 1, 0>>}
DeltaTimes == {1}

Idle == frames = <<>>

\* ------------------------------------------------------------------ Spec
\* The model node under its callers: pose calls, speed calls, time steps and reads.
Called(op, n) ==
    /\ lastCall' = [op |-> op, node |-> n, recomputed |-> FALSE]
    /\ nOps' = nOps + 1
    /\ UNCHANGED <<ret, histVars, utilVars, ownVars, loopVars>>

CanCall == nOps < MaxOps /\ Idle

Move ==
    \E v \in MoveVectors :
        CanCall /\ Node_move(mModelPtr, v) /\ Called("move", mModelPtr) /\ reads' = 0
Pitch ==
    \E a \in Angles :
        CanCall /\ Node_pitch(mModelPtr, a) /\ Called("pitch", mModelPtr) /\ reads' = 0
Yaw ==
    \E a \in Angles :
        CanCall /\ Node_yaw(mModelPtr, a) /\ Called("yaw", mModelPtr) /\ reads' = 0
Roll ==
    \E a \in Angles :
        CanCall /\ Node_roll(mModelPtr, a) /\ Called("roll", mModelPtr) /\ reads' = 0
SetOrientationQuaternion ==
    \E q \in LoadedQuats :
        /\ CanCall
        /\ Node_setOrientationQuaternion(mModelPtr, q[1], q[2], q[3], q[4])
        /\ Called("setOrientationQuaternion", mModelPtr)
        /\ reads' = 0
SetTranslationVector ==
    \E v \in LoadedVecs :
        /\ CanCall
        /\ Node_setTranslationVector(mModelPtr, v[1], v[2], v[3])
        /\ Called("setTranslationVector", mModelPtr)
        /\ reads' = 0
SetLinearSpeed ==
    \E v \in LinearSpeeds :
        /\ CanCall
        /\ Node_setLinearSpeed(mModelPtr, v)
        /\ Called("setLinearSpeed", mModelPtr)
        /\ UNCHANGED reads
SetRotationalSpeed ==
    \E v \in RotationalSpeeds :
        /\ CanCall
        /\ Node_setRotationalSpeed(mModelPtr, v)
        /\ Called("setRotationalSpeed", mModelPtr)
        /\ UNCHANGED reads
MoveDeltaTime ==
    \E dt \in DeltaTimes :
        /\ CanCall
        /\ Node_moveDeltaTime(mModelPtr, dt)
        /\ Called("moveDeltaTime", mModelPtr)
        /\ reads' = IF Physic_isInMotion(mPhysic[mModelPtr]) THEN 0 ELSE reads
GetMatrix ==
    /\ Idle
    /\ Node_getMatrix(mModelPtr)
    /\ ret' = mMatrix'[mModelPtr]
    /\ lastCall' = [op |-> "getMatrix", node |-> mModelPtr,
                    recomputed |-> mbMatrixDirty[mModelPtr]]
    /\ reads' = IF reads < 2 THEN reads + 1 ELSE reads
    /\ UNCHANGED <<nOps, histVars, utilVars, ownVars, loopVars>>

Next ==
    \/ Move
    \/ Pitch
    \/ Yaw
    \/ Roll
    \/ SetOrientationQuaternion
    \/ SetTranslationVector
    \/ SetLinearSpeed
    \/ SetRotationalSpeed
    \/ MoveDeltaTime
    \/ GetMatrix

Spec == Init /\ [][Next]_vars

\* ------------------------------------------------------------------ MatrixStack
\* Faulty variant: multiply on the left, aMatrix * current.
MatrixStack_multiply_left(current, aMatrix) == Mat4Mul(aMatrix, current)

\* void MatrixStack::multiply(const glm::mat4 &aMatrix) : the new mCurrentMatrix
MatrixStack_multiply(current, aMatrix) == Mat4Mul(current, aMatrix)

\* const glm::mat4& MatrixStack::top() const
MatrixStack_top == mCurrentMatrix

\* Faulty variant: push saves a default matrix instead of the current one.
MatrixStack_push_default(stack, current) == Append(stack, Mat4Identity)

\* void MatrixStack::push() : the new mStack
MatrixStack_push(stack, current) == Append(stack, current)

\* What pop() on an empty std::stack may leave in mCurrentMatrix: anything.
Garbage == {Mat4Identity, translate(Mat4Identity, <<7, 7, 7>>)}

\* Faulty variant: pop drops the saved matrix without restoring it.
MatrixStack_pop_noRestore(stack) ==
    [stack |-> SubSeq(stack, 1, Len(stack) - 1), current |-> {mCurrentMatrix},
     underflow |-> stack = <<>>]

\* void MatrixStack::pop() : the new mStack, and the set of possible new
\* mCurrentMatrix (one matrix, but any matrix when the stack is empty)
MatrixStack_pop(stack) ==
    IF stack # <<>>
    THEN [stack |-> SubSeq(stack, 1, Len(stack) - 1), current |-> {stack[Len(stack)]},
          underflow |-> FALSE]
    ELSE [stack |-> <<>>, current |-> Garbage, underflow |-> TRUE]

\* MatrixStack::Push::Push(MatrixStack&) : the guard's constructor
Push_ctor ==
    /\ mStack' = MatrixStack_push(mStack, mCurrentMatrix)
    /\ UNCHANGED <<mCurrentMatrix, underflow>>

\* MatrixStack::Push::~Push() : the guard's destructor
Push_dtor ==
    LET r == MatrixStack_pop(mStack)
    IN  /\ mStack' = r.stack
        /\ mCurrentMatrix' \in r.current
        /\ underflow' = (underflow \/ r.underflow)

\* ------------------------------------------------------------------ Node, Scene: tree
\* Faulty variant: the child is put in the root list of the scene as well.
Node_addChildNode_alsoRoot(n, aChildNodePtr) ==
    /\ mChildrenList' = [mChildrenList EXCEPT ![n] = Append(@, aChildNodePtr)]
    /\ mRootNodes' = Append(mRootNodes, aChildNodePtr)
    /\ UNCHANGED <<mMeshesList, mPhysic, poseVars, drawVars>>

\* void Node::addChildNode(const Node::Ptr& aChildNodePtr)
Node_addChildNode(n, aChildNodePtr) ==
    /\ mChildrenList' = [mChildrenList EXCEPT ![n] = Append(@, aChildNodePtr)]
    /\ UNCHANGED <<mMeshesList, mRootNodes, mPhysic, poseVars, drawVars>>

\* void Node::addMesh(const Mesh::Ptr& aMeshPtr)
Node_addMesh(n, aMeshPtr) ==
    /\ mMeshesList' = [mMeshesList EXCEPT ![n] = Append(@, aMeshPtr)]
    /\ UNCHANGED <<mChildrenList, mRootNodes, mPhysic, poseVars, drawVars>>

\* void Scene::addRootNode(const Node::Ptr& aChildScenePtr)
Scene_addRootNode(aChildScenePtr) ==
    /\ mRootNodes' = Append(mRootNodes, aChildScenePtr)
    /\ UNCHANGED <<mChildrenList, mMeshesList, mPhysic, poseVars, drawVars>>

\* ------------------------------------------------------------------ draw traversal
SceneFrame == [fn |-> "Scene::draw", node |-> 0, pc |-> "roots", i |-> 1,
               entry |-> mCurrentMatrix, depth |-> Len(mStack)]

\* the frame of a call of Node::draw on node n, made now
NodeFrame(n) == [fn |-> "Node::draw", node |-> n, pc |-> "enter", i |-> 1,
                 entry |-> mCurrentMatrix, depth |-> Len(mStack)]

Top == frames[Len(frames)]
Running(fn, pc) == frames # <<>> /\ ~raised /\ Top.fn = fn /\ Top.pc = pc

\* the nodes whose Node::draw is in progress, outermost first
RECURSIVE ChainOf(_)
ChainOf(fs) ==
    IF fs = <<>> THEN <<>>
    ELSE LET rest == ChainOf(SubSeq(fs, 1, Len(fs) - 1))
             f == fs[Len(fs)]
         IN  IF f.fn = "Node::draw" THEN Append(rest, f.node) ELSE rest

Event(ev, n, mesh, m, depth) ==
    [ev |-> ev, node |-> n, mesh |-> mesh, m |-> m, chain |-> ChainOf(frames),
     before |-> mCurrentMatrix, raised |-> raised,
     entry |-> (IF frames = <<>> THEN m ELSE Top.entry),
     depth |-> depth,
     depth0 |-> (IF frames = <<>> THEN 0 ELSE Top.depth)]

\* Renderer::display : a MatrixStack built on the camera matrix, then Scene::draw
Renderer_display(seed) ==
    /\ Idle
    /\ mStack' = <<>>
    /\ mCurrentMatrix' = seed
    /\ underflow' = FALSE
    /\ frames' = <<[SceneFrame EXCEPT !.entry = seed, !.depth = 0]>>
    /\ raised' = FALSE
    /\ trace' = <<>>
    /\ drawCall' = [status |-> "running", seed |-> seed, depth |-> 0]
    /\ UNCHANGED <<treeVars, mPhysic, poseVars>>

\* Faulty variant: Scene::draw saves the matrix on the stack before each root node.
Scene_draw_child_push ==
    /\ Running("Scene::draw", "roots")
    /\ Top.i <= Len(mRootNodes)
    /\ mStack' = Append(mStack, mCurrentMatrix)
    /\ frames' = Append([frames EXCEPT ![Len(frames)].i = @ + 1],
                        [NodeFrame(mRootNodes[Top.i]) EXCEPT !.depth = Len(mStack) + 1])
    /\ UNCHANGED <<treeVars, mPhysic, poseVars, mCurrentMatrix, raised, underflow, trace,
                   drawCall>>

\* Scene::draw, the loop: the next root node is asked to draw itself
Scene_draw_child ==
    /\ Running("Scene::draw", "roots")
    /\ Top.i <= Len(mRootNodes)
    /\ frames' = Append([frames EXCEPT ![Len(frames)].i = @ + 1],
                        NodeFrame(mRootNodes[Top.i]))
    /\ UNCHANGED <<treeVars, mPhysic, poseVars, stackVars, raised, underflow, trace,
                   drawCall>>

\* Scene::draw, the end of the loop: return to the caller
Scene_draw_return ==
    /\ Running("Scene::draw", "roots")
    /\ Top.i > Len(mRootNodes)
    /\ frames' = SubSeq(frames, 1, Len(frames) - 1)
    /\ drawCall' = [drawCall EXCEPT !.status = "returned"]
    /\ UNCHANGED <<treeVars, mPhysic, poseVars, stackVars, raised, underflow, trace>>

\* Faulty variant: the guard is built after the multiply, so it saves the node's own matrix.
Node_draw_begin_pushLate ==
    /\ Running("Node::draw", "enter")
    /\ LET n == Top.node
           m == getMatrix_mMatrix(n)
           top == Mat4Mul(mCurrentMatrix, m)
       IN  /\ mStack' = Append(mStack, top)
           /\ mMatrix' = [mMatrix EXCEPT ![n] = m]
           /\ mbMatrixDirty' = [mbMatrixDirty EXCEPT ![n] = getMatrix_mbMatrixDirty(n)]
           /\ mCurrentMatrix' = top
           /\ trace' = Append(trace, Event("uniform", n, "", top, Len(mStack) + 1))
    /\ frames' = [frames EXCEPT ![Len(frames)].pc = "meshes"]
    /\ UNCHANGED <<treeVars, mPhysic, mOrientationQuaternion, mTranslationVector, raised,
                   underflow, drawCall>>

\* Faulty variant: the node's matrix is multiplied in and not uploaded.
Node_draw_begin_noUpload ==
    /\ Running("Node::draw", "enter")
    /\ LET n == Top.node
           m == getMatrix_mMatrix(n)
           top == Mat4Mul(mCurrentMatrix, m)
       IN  /\ mStack' = Append(mStack, mCurrentMatrix)
           /\ mMatrix' = [mMatrix EXCEPT ![n] = m]
           /\ mbMatrixDirty' = [mbMatrixDirty EXCEPT ![n] = getMatrix_mbMatrixDirty(n)]
           /\ mCurrentMatrix' = top
    /\ frames' = [frames EXCEPT ![Len(frames)].pc = "meshes"]
    /\ UNCHANGED <<treeVars, mPhysic, mOrientationQuaternion, mTranslationVector, raised,
                   underflow, trace, drawCall>>

\* Node::draw, up to the loops: the Push guard, multiply(getMatrix()), the upload
Node_draw_begin ==
    /\ Running("Node::draw", "enter")
    /\ LET n == Top.node
           m == getMatrix_mMatrix(n)
           top == MatrixStack_multiply(mCurrentMatrix, m)
       IN  /\ mStack' = MatrixStack_push(mStack, mCurrentMatrix)
           /\ mMatrix' = [mMatrix EXCEPT ![n] = m]
           /\ mbMatrixDirty' = [mbMatrixDirty EXCEPT ![n] = getMatrix_mbMatrixDirty(n)]
           /\ mCurrentMatrix' = top
           /\ trace' = Append(trace, Event("uniform", n, "", top, Len(mStack) + 1))
    /\ frames' = [frames EXCEPT ![Len(frames)].pc = "meshes"]
    /\ UNCHANGED <<treeVars, mPhysic, mOrientationQuaternion, mTranslationVector, raised,
                   underflow, drawCall>>

\* Node::draw, the first loop: the next mesh draws
Node_draw_mesh ==
    /\ Running("Node::draw", "meshes")
    /\ Top.i <= Len(mMeshesList[Top.node])
    /\ trace' = Append(trace, Event("mesh", Top.node, mMeshesList[Top.node][Top.i],
                                    mCurrentMatrix, Len(mStack)))
    /\ frames' = [frames EXCEPT ![Len(frames)].i = @ + 1]
    /\ UNCHANGED <<treeVars, mPhysic, poseVars, stackVars, raised, underflow, drawCall>>

\* Node::draw, the end of the first loop
Node_draw_meshesEnd ==
    /\ Running("Node::draw", "meshes")
    /\ Top.i > Len(mMeshesList[Top.node])
    /\ frames' = [frames EXCEPT ![Len(frames)].pc = "children", ![Len(frames)].i = 1]
    /\ UNCHANGED <<treeVars, mPhysic, poseVars, stackVars, raised, underflow, trace,
                   drawCall>>

\* Faulty variant: the children are visited from the last to the first.
Node_draw_childIndex_reversed(n, i) == Len(mChildrenList[n]) - i + 1

\* the index of the child Node::draw visits when its loop index is i
Node_draw_childIndex(n, i) == i

\* Faulty variant: the loop over the children does not advance.
Node_draw_child_noAdvance ==
    /\ Running("Node::draw", "children")
    /\ Top.i <= Len(mChildrenList[Top.node])
    /\ frames' = Append(frames, NodeFrame(mChildrenList[Top.node][Top.i]))
    /\ UNCHANGED <<treeVars, mPhysic, poseVars, stackVars, raised, underflow, trace,
                   drawCall>>

\* Node::draw, the second loop: the next child is asked to draw itself
Node_draw_child ==
    /\ Running("Node::draw", "children")
    /\ Top.i <= Len(mChildrenList[Top.node])
    /\ frames' = Append([frames EXCEPT ![Len(frames)].i = @ + 1],
                        NodeFrame(mChildrenList[Top.node][Node_draw_childIndex(Top.node, Top.i)]))
    /\ UNCHANGED <<treeVars, mPhysic, poseVars, stackVars, raised, underflow, trace,
                   drawCall>>

\* Node::draw, the end of the scope: ~Push restores the matrix, the call returns
Node_draw_return ==
    /\ Running("Node::draw", "children")
    /\ Top.i > Len(mChildrenList[Top.node])
    /\ Push_dtor
    /\ trace' = Append(trace, Event("leave", Top.node, "", mCurrentMatrix', Len(mStack')))
    /\ frames' = SubSeq(frames, 1, Len(frames) - 1)
    /\ UNCHANGED <<treeVars, mPhysic, poseVars, raised, drawCall>>

\* ------------------------------------------------------------------ SpecDraw
\* A loader fills the scene, one node after the other, then the frames are drawn.
Attached(n) ==
    \/ \E i \in 1..Len(mRootNodes) : mRootNodes[i] = n
    \/ \E p \in Nodes : \E i \in 1..Len(mChildrenList[p]) : mChildrenList[p][i] = n

Loading == Idle /\ drawCall.status = "none"
Loaded(ns) == {n \in ns : Attached(n)}
NextNode == CHOOSE n \in Nodes : ~Attached(n) /\ \A m \in Nodes : m < n => Attached(m)
CurNode == CHOOSE n \in Nodes : Attached(n) /\ \A m \in Nodes : m > n => ~Attached(m)

\* what an asset places a node with: a half turn about X, a displacement
AssetQuats == {<<0, 1, 0, 0>>}
AssetVecs == {<<1, 0, 2>>}

\* Renderer::transform() for a camera turned half about Y and pulled back
Seeds == {translate(mat4_cast(Quat(0, 0, 1, 0)), <<0, -2, -6>>)}

LoadRootNode ==
    /\ Loading
    /\ \E n \in Nodes : ~Attached(n)
    /\ Scene_addRootNode(NextNode)
    /\ UNCHANGED <<callVars, nOps>>
LoadChildNode ==
    /\ Loading
    /\ \E n \in Nodes : ~Attached(n)
    /\ \E p \in Loaded(Nodes) : Node_addChildNode(p, NextNode)
    /\ UNCHANGED <<callVars, nOps>>
LoadMesh ==
    /\ Loading
    /\ nOps < MaxLoads
    /\ Loaded(Nodes) # {}
    /\ \E m \in Meshes : Node_addMesh(CurNode, m)
    /\ nOps' = nOps + 1
    /\ UNCHANGED callVars
LoadOrientation ==
    /\ Loading
    /\ nOps < MaxLoads
    /\ Loaded(Nodes) # {}
    /\ \E q \in AssetQuats : Node_setOrientationQuaternion(CurNode, q[1], q[2], q[3], q[4])
    /\ nOps' = nOps + 1
    /\ UNCHANGED callVars
LoadTranslation ==
    /\ Loading
    /\ nOps < MaxLoads
    /\ Loaded(Nodes) # {}
    /\ \E v \in AssetVecs : Node_setTranslationVector(CurNode, v[1], v[2], v[3])
    /\ nOps' = nOps + 1
    /\ UNCHANGED callVars
Display == (\E seed \in Seeds : Renderer_display(seed)) /\ UNCHANGED <<callVars, nOps>>
SceneDrawChild == Scene_draw_child /\ UNCHANGED <<callVars, nOps>>
SceneDrawReturn == Scene_draw_return /\ UNCHANGED <<callVars, nOps>>
NodeDrawBegin == Node_draw_begin /\ UNCHANGED <<callVars, nOps>>
NodeDrawMesh == Node_draw_mesh /\ UNCHANGED <<callVars, nOps>>
NodeDrawMeshesEnd == Node_draw_meshesEnd /\ UNCHANGED <<callVars, nOps>>
NodeDrawChild == Node_draw_child /\ UNCHANGED <<callVars, nOps>>
NodeDrawReturn == Node_draw_return /\ UNCHANGED <<callVars, nOps>>

NextDraw ==
    \/ LoadRootNode
    \/ LoadChildNode
    \/ LoadMesh
    \/ LoadOrientation
    \/ LoadTranslation
    \/ Display
    \/ SceneDrawChild
    \/ SceneDrawReturn
    \/ NodeDrawBegin
    \/ NodeDrawMesh
    \/ NodeDrawMeshesEnd
    \/ NodeDrawChild
    \/ NodeDrawReturn

SpecDraw == Init /\ [][NextDraw]_vars

\* ------------------------------------------------------------------ SpecDrawRaise
\* The same, where a mesh's draw() may raise: the error unwinds every frame.
\* Mesh::draw raises instead of returning
Mesh_draw_raise ==
    /\ Running("Node::draw", "meshes")
    /\ Top.i <= Len(mMeshesList[Top.node])
    /\ raised' = TRUE
    /\ UNCHANGED <<treeVars, mPhysic, poseVars, stackVars, frames, underflow, trace,
                   drawCall>>

\* Faulty variant: the stack is restored by a plain call at the end of Node::draw, which an
\* error skips.
Node_draw_unwind_noGuard ==
    /\ frames # <<>> /\ raised /\ Top.fn = "Node::draw"
    /\ UNCHANGED <<stackVars, underflow>>
    /\ trace' = Append(trace, Event("leave", Top.node, "", mCurrentMatrix, Len(mStack)))
    /\ frames' = SubSeq(frames, 1, Len(frames) - 1)
    /\ UNCHANGED <<treeVars, mPhysic, poseVars, raised, drawCall>>

\* The error leaves a Node::draw: its Push guard, if built, is destroyed
Node_draw_unwind ==
    /\ frames # <<>> /\ raised /\ Top.fn = "Node::draw"
    /\ IF Top.pc # "enter" THEN Push_dtor ELSE UNCHANGED <<stackVars, underflow>>
    /\ trace' = Append(trace, Event("leave", Top.node, "", mCurrentMatrix', Len(mStack')))
    /\ frames' = SubSeq(frames, 1, Len(frames) - 1)
    /\ UNCHANGED <<treeVars, mPhysic, poseVars, raised, drawCall>>

\* The error leaves Scene::draw and reaches the caller
Scene_draw_unwind ==
    /\ frames # <<>> /\ raised /\ Top.fn = "Scene::draw"
    /\ frames' = SubSeq(frames, 1, Len(frames) - 1)
    /\ raised' = FALSE
    /\ drawCall' = [drawCall EXCEPT !.status = "raised"]
    /\ UNCHANGED <<treeVars, mPhysic, poseVars, stackVars, underflow, trace>>

MeshDrawRaise == Mesh_draw_raise /\ UNCHANGED <<callVars, nOps>>
NodeDrawUnwind == Node_draw_unwind /\ UNCHANGED <<callVars, nOps>>
SceneDrawUnwind == Scene_draw_unwind /\ UNCHANGED <<callVars, nOps>>

NextDrawRaise ==
    \/ LoadRootNode
    \/ LoadChildNode
    \/ LoadMesh
    \/ LoadOrientation
    \/ LoadTranslation
    \/ Display
    \/ SceneDrawChild
    \/ SceneDrawReturn
    \/ NodeDrawBegin
    \/ NodeDrawMesh
    \/ NodeDrawMeshesEnd
    \/ NodeDrawChild
    \/ NodeDrawReturn
    \/ MeshDrawRaise
    \/ NodeDrawUnwind
    \/ SceneDrawUnwind

SpecDrawRaise == Init /\ [][NextDrawRaise]_vars

\* ------------------------------------------------------------------ SpecStack
\* Any client of the public interface of MatrixStack: nested scopes that hold a
\* Push guard each, multiply, and writes through the reference top() returns.
ClientMats == {translate(Mat4Identity, <<1, 0, 2>>), mat4_cast(Quat(0, 1, 0, 0))}

ScopeFrame == [fn |-> "scope", node |-> 0, pc |-> "body", i |-> 1,
               entry |-> mCurrentMatrix, depth |-> Len(mStack)]

\* a scope is entered: its Push guard is constructed
ClientEnterScope ==
    /\ Len(frames) < MaxScopes
    /\ Push_ctor
    /\ frames' = Append(frames, ScopeFrame)
    /\ UNCHANGED <<treeVars, mPhysic, poseVars, raised, trace, drawCall, callVars, nOps>>

\* the innermost scope ends: its Push guard is destroyed
ClientLeaveScope ==
    /\ frames # <<>>
    /\ Push_dtor
    /\ trace' = <<Event("leave", 0, "", mCurrentMatrix', Len(mStack'))>>
    /\ frames' = SubSeq(frames, 1, Len(frames) - 1)
    /\ UNCHANGED <<treeVars, mPhysic, poseVars, raised, drawCall, callVars, nOps>>

\* stack.multiply(m)
ClientMultiply ==
    /\ nOps < MaxOps
    /\ \E m \in ClientMats : mCurrentMatrix' = MatrixStack_multiply(mCurrentMatrix, m)
    /\ nOps' = nOps + 1
    /\ UNCHANGED <<treeVars, mPhysic, poseVars, mStack, frames, raised, underflow, trace,
                   drawCall, callVars>>

\* stack.top() = m, through the reference the non-const top() returns
ClientTopWrite ==
    /\ nOps < MaxOps
    /\ \E m \in ClientMats : mCurrentMatrix' = m
    /\ nOps' = nOps + 1
    /\ UNCHANGED <<treeVars, mPhysic, poseVars, mStack, frames, raised, underflow, trace,
                   drawCall, callVars>>

NextStack ==
    \/ ClientEnterScope
    \/ ClientLeaveScope
    \/ ClientMultiply
    \/ ClientTopWrite

SpecStack == Init /\ [][NextStack]_vars

\* ------------------------------------------------------------------ SpecFrame
\* The render loop: a scene is loaded with nodes that have speeds, then
\* Input::displayCallback runs once per frame: keys, Scene::move, Renderer::display.
FrameLinearSpeeds == {<<1, 0, 0>>}
FrameRotationalSpeeds == {<<0, 1, 0>>}
FrameDeltaTimes == {1}
Keys == {"m"}       \* the key that yaws the model is held down

\* the poses of all nodes now
Snapshot == [q |-> mOrientationQuaternion, t |-> mTranslationVector]

\* Faulty variant: the frame is displayed before the nodes are moved.
displayCallback_next_displayFirst(pc) ==
    CASE pc = "begin" -> "checkKeys"
      [] pc = "checkKeys" -> "display"
      [] pc = "display" -> "move"
      [] pc = "move" -> "return"

\* Input::displayCallback : the statement that follows statement pc
displayCallback_next(pc) ==
    CASE pc = "begin" -> "checkKeys"
      [] pc = "checkKeys" -> "move"
      [] pc = "move" -> "display"
      [] pc = "display" -> "return"

\* the callback goes on to its next statement
Goto(pc) == [loop EXCEPT !.pc = pc, !.i = 0]

FrameMesh == "cube"
FrameLoading == loop.pc = "idle" /\ loop.frame = 0 /\ Idle
\* Renderer::initScene : the model is created, given its mesh and made a root node
FrameLoadModel ==
    /\ FrameLoading
    /\ ~Attached(mModelPtr)
    /\ mMeshesList' = [mMeshesList EXCEPT ![mModelPtr] = Append(@, FrameMesh)]
    /\ mRootNodes' = Append(mRootNodes, mModelPtr)
    /\ UNCHANGED <<mChildrenList, mPhysic, poseVars, drawVars, callVars, nOps>>
FrameLoadRootNode ==
    /\ FrameLoading
    /\ Attached(mModelPtr)
    /\ \E n \in Nodes : ~Attached(n)
    /\ Scene_addRootNode(NextNode)
    /\ UNCHANGED <<callVars, nOps>>
FrameLoadChildNode ==
    /\ FrameLoading
    /\ \E n \in Nodes : ~Attached(n)
    /\ \E p \in Loaded(Nodes) : Node_addChildNode(p, NextNode)
    /\ UNCHANGED <<callVars, nOps>>
FrameLoadLinearSpeed ==
    /\ FrameLoading
    /\ nOps < MaxLoads
    /\ Loaded(Nodes) # {}
    /\ \E v \in FrameLinearSpeeds : Node_setLinearSpeed(CurNode, v)
    /\ nOps' = nOps + 1
    /\ UNCHANGED callVars
FrameLoadRotationalSpeed ==
    /\ FrameLoading
    /\ nOps < MaxLoads
    /\ Loaded(Nodes) # {}
    /\ \E v \in FrameRotationalSpeeds : Node_setRotationalSpeed(CurNode, v)
    /\ nOps' = nOps + 1
    /\ UNCHANGED callVars

\* glut calls Input::displayCallback
DisplayCallback ==
    /\ loop.pc = "idle"
    /\ Idle
    /\ loop.frame < MaxFrames
    /\ \E dt \in FrameDeltaTimes :
          loop' = [Goto(displayCallback_next("begin")) EXCEPT
                      !.moved = 0, !.drawn = 0, !.dt = dt]
    /\ UNCHANGED <<treeVars, mPhysic, poseVars, drawVars, lastCall, ret, reads, histVars, utilVars,
                   ownVars, nOps>>

\* Input::checkKeys : the model is turned when its key is down and it is loaded
CheckKeys ==
    /\ loop.pc = "checkKeys"
    /\ \E key \in Keys :
          IF key = "m" /\ Attached(mModelPtr)
          THEN Node_yaw(mModelPtr, 1)
          ELSE UNCHANGED <<treeVars, mPhysic, poseVars, drawVars>>
    /\ loop' = Goto(displayCallback_next("checkKeys"))
    /\ UNCHANGED <<lastCall, ret, reads, histVars, utilVars, ownVars, nOps>>

\* Renderer::move calls Scene::move, which starts at its first root node
Renderer_move ==
    /\ loop.pc = "move"
    /\ loop.i = 0
    /\ loop' = [loop EXCEPT !.i = 1, !.pre = Snapshot]
    /\ UNCHANGED <<treeVars, mPhysic, poseVars, drawVars, lastCall, ret, reads, histVars, utilVars,
                   ownVars, nOps>>

\* Scene::move, the loop: the next root node is asked to move itself
Scene_move_child ==
    /\ loop.pc = "move"
    /\ loop.i >= 1
    /\ loop.i <= Len(mRootNodes)
    /\ Node_moveDeltaTime(mRootNodes[loop.i], loop.dt)
    /\ loop' = [loop EXCEPT !.i = @ + 1]
    /\ UNCHANGED <<lastCall, ret, reads, histVars, utilVars, ownVars, nOps>>

\* Scene::move, the end of the loop: Renderer::move returns to the callback
Scene_move_return ==
    /\ loop.pc = "move"
    /\ loop.i >= 1
    /\ loop.i > Len(mRootNodes)
    /\ loop' = [Goto(displayCallback_next("move")) EXCEPT
                    !.moved = loop.moved + 1, !.post = Snapshot]
    /\ UNCHANGED <<treeVars, mPhysic, poseVars, drawVars, lastCall, ret, reads, histVars, utilVars,
                   ownVars, nOps>>

\* mRenderer.display() is called
FrameDisplay ==
    /\ loop.pc = "display"
    /\ loop.drawn = 0
    /\ \E seed \in Seeds : Renderer_display(seed)
    /\ loop' = [loop EXCEPT !.drawn = 1]
    /\ UNCHANGED <<lastCall, ret, reads, histVars, utilVars, ownVars, nOps>>

\* mRenderer.display() has returned
FrameDisplayReturn ==
    /\ loop.pc = "display"
    /\ loop.drawn = 1
    /\ Idle
    /\ loop' = Goto(displayCallback_next("display"))
    /\ UNCHANGED <<treeVars, mPhysic, poseVars, drawVars, lastCall, ret, reads, histVars, utilVars,
                   ownVars, nOps>>

\* Input::displayCallback returns to glut
DisplayCallbackReturn ==
    /\ loop.pc = "return"
    /\ loop' = [loop EXCEPT !.pc = "idle", !.frame = @ + 1]
    /\ UNCHANGED <<treeVars, mPhysic, poseVars, drawVars, lastCall, ret, reads, histVars, utilVars,
                   ownVars, nOps>>

NextFrame ==
    \/ FrameLoadRootNode
    \/ FrameLoadChildNode
    \/ FrameLoadModel
    \/ FrameLoadLinearSpeed
    \/ FrameLoadRotationalSpeed
    \/ DisplayCallback
    \/ CheckKeys
    \/ Renderer_move
    \/ Scene_move_child
    \/ Scene_move_return
    \/ FrameDisplay
    \/ FrameDisplayReturn
    \/ DisplayCallbackReturn
    \/ SceneDrawChild
    \/ SceneDrawReturn
    \/ NodeDrawBegin
    \/ NodeDrawMesh
    \/ NodeDrawMeshesEnd
    \/ NodeDrawChild
    \/ NodeDrawReturn

SpecFrame == Init /\ [][NextFrame]_vars

\* ------------------------------------------------------------------ SpecRead
\* The model node in a scene: the loader attaches it and nodes below it, its callers
\* turn it, set its speed and read its matrix, and the scene is drawn in between.
NextRead ==
    \/ FrameLoadModel
    \/ FrameLoadChildNode
    \/ Yaw
    \/ SetLinearSpeed
    \/ GetMatrix
    \/ Display
    \/ SceneDrawChild
    \/ SceneDrawReturn
    \/ NodeDrawBegin
    \/ NodeDrawMesh
    \/ NodeDrawMeshesEnd
    \/ NodeDrawChild
    \/ NodeDrawReturn

SpecRead == Init /\ [][NextRead]_vars

\* ------------------------------------------------------------------ ownership
\* Node::Ptr is a reference counted pointer.  A node is held by the lists it is in, by
\* Renderer::mModelPtr when it is the model, and, while Renderer::initScene runs, by
\* the local Ptr it was created in; it is destroyed when its last holder lets go.
Count(list, n) == Cardinality({i \in 1..Len(list) : list[i] = n})

RECURSIVE CountInChildren(_, _)
CountInChildren(n, p) ==
    IF p = 0 THEN 0 ELSE Count(mChildrenList[p], n) + CountInChildren(n, p - 1)

\* the number of Ptr that hold node n
RefCount(n) ==
    Count(mRootNodes, n) + CountInChildren(n, NumNodes)
    + (IF lifetime = "initScene" /\ n # mModelPtr THEN 1 ELSE 0)
    + (IF lifetime # "destroyed" /\ n = mModelPtr THEN 1 ELSE 0)

OwnState ==
    [rc |-> [n \in Nodes |-> RefCount(n)], dead |-> destroyed, children |-> mChildrenList]

\* Faulty variant: the node is destroyed and the Ptr of its child list are not let go.
Node_dtor_keepChildren(st, n) ==
    [st EXCEPT !.dead[n] = @ + 1, !.children[n] = <<>>]

RECURSIVE Node_dtor(_, _)
RECURSIVE Ptr_release(_, _)
RECURSIVE Ptr_releaseList(_, _, _)
\* Node::~Node and the destruction of its members: every Ptr of mChildrenList lets go
Node_dtor(st, n) ==
    Ptr_releaseList([st EXCEPT !.dead[n] = @ + 1, !.children[n] = <<>>], st.children[n], 1)

\* a Ptr to node n lets go: the node is destroyed when no other Ptr holds it
Ptr_release(st, n) ==
    LET st1 == [st EXCEPT !.rc[n] = @ - 1]
    IN  IF st1.rc[n] = 0 THEN Node_dtor(st1, n) ELSE st1

\* the Ptr of a std::vector let go, from index i on
Ptr_releaseList(st, list, i) ==
    IF i > Len(list) THEN st
    ELSE Ptr_releaseList(Ptr_release(st, list[i]), list, i + 1)

\* the local Ptr of nodes k, k - 1, ... let go, the model excepted (a member holds it)
RECURSIVE ReleaseLocals(_, _)
ReleaseLocals(st, k) ==
    IF k = 0 THEN st
    ELSE ReleaseLocals(IF k = mModelPtr THEN st ELSE Ptr_release(st, k), k - 1)

\* Renderer::initScene returns: its local Ptr are destroyed, last created first
Renderer_initScene_return ==
    LET st == ReleaseLocals(OwnState, NumNodes)
    IN  /\ lifetime = "initScene"
        /\ lifetime' = "running"
        /\ destroyed' = st.dead
        /\ mChildrenList' = st.children
        /\ UNCHANGED <<mRootNodes, mMeshesList, mPhysic, poseVars, drawVars>>

\* Renderer::~Renderer : the members are destroyed in reverse order of declaration,
\* mTurretPtr (never set), mModelPtr, then mSceneHierarchy with its root list
Renderer_dtor ==
    LET st1 == Ptr_release(OwnState, mModelPtr)
        st2 == Ptr_releaseList(st1, mRootNodes, 1)
    IN  /\ lifetime = "running"
        /\ Idle
        /\ lifetime' = "destroyed"
        /\ destroyed' = st2.dead
        /\ mChildrenList' = st2.children
        /\ mRootNodes' = <<>>
        /\ UNCHANGED <<mMeshesList, mPhysic, poseVars, drawVars>>

\* the nodes below node n, by its child list and theirs
RECURSIVE Below(_, _)
Below(ns, k) ==
    IF k = 0 THEN ns
    ELSE Below(ns \cup {c \in Nodes : \E p \in ns : Count(mChildrenList[p], c) > 0}, k - 1)
Descendants(n) == Below({c \in Nodes : Count(mChildrenList[n], c) > 0}, NumNodes)

\* ------------------------------------------------------------------ SpecOwn
\* Any caller of addRootNode and addChildNode during Renderer::initScene, then the
\* end of initScene and of the Renderer.  The caller notes each call that hands over
\* a node some list holds already, or the receiver itself or one of its ancestors.
OwnAddRootNode ==
    /\ lifetime = "initScene"
    /\ nOps < MaxLoads
    /\ \E n \in Nodes :
          /\ Scene_addRootNode(n)
          /\ shared' = (shared \/ Attached(n))
          /\ hist' = Append(hist, [op |-> "addRootNode", arg |-> <<n>>])
    /\ nOps' = nOps + 1
    /\ UNCHANGED <<lastCall, ret, reads, loopVars, utilVars, destroyed, lifetime>>

OwnAddChildNode ==
    /\ lifetime = "initScene"
    /\ nOps < MaxLoads
    /\ \E p \in Nodes : \E c \in Nodes :
          /\ Node_addChildNode(p, c)
          /\ shared' = (shared \/ Attached(c) \/ c = p \/ p \in Descendants(c))
          /\ hist' = Append(hist, [op |-> "addChildNode", arg |-> <<p, c>>])
    /\ nOps' = nOps + 1
    /\ UNCHANGED <<lastCall, ret, reads, loopVars, utilVars, destroyed, lifetime>>

InitSceneReturn ==
    /\ Renderer_initScene_return
    /\ UNCHANGED <<lastCall, ret, reads, histVars, utilVars, loopVars, shared, nOps>>

RendererDtor ==
    /\ Renderer_dtor
    /\ UNCHANGED <<lastCall, ret, reads, histVars, utilVars, loopVars, shared, nOps>>

NextOwn ==
    \/ OwnAddRootNode
    \/ OwnAddChildNode
    \/ InitSceneReturn
    \/ RendererDtor

SpecOwn == Init /\ [][NextOwn]_vars

\* ------------------------------------------------------------------ SpecPose
\* The model node under a caller that keeps a record of every call it makes: what
\* was called, with what argument, and the pose and speeds the node had before.
PoseAngles == {1, -1, 2, -2}
PoseQuats == {<<0, 1, 0, 0>>, <<0, 2, 0, 0>>}
PoseVecs == {<<1, 0, 2>>}
StepLinearSpeeds == {Vec3Zero, <<1, 0, 0>>}
StepRotationalSpeeds == {Vec3Zero, <<1, 1, 0>>}
StepDeltaTimes == {1, 2}

\* the quaternion has length one
IsUnit(q) == q.w * q.w + q.x * q.x + q.y * q.y + q.z * q.z = q.d

\* The turns of the model are exact on unit orientations: a node whose orientation
\* was set unnormalised is moved, read and set again, and not turned.
CanTurn == IsUnit(mOrientationQuaternion[mModelPtr])
CanStep ==
    \/ IsUnit(mOrientationQuaternion[mModelPtr])
    \/ mPhysic[mModelPtr].mRotationalSpeed = Vec3Zero

PoseCall(op, arg) ==
    [op |-> op, arg |-> arg,
     q0 |-> mOrientationQuaternion[mModelPtr],
     t0 |-> mTranslationVector[mModelPtr],
     p0 |-> mPhysic[mModelPtr]]

Recorded(op, arg) ==
    /\ hist' = Append(hist, PoseCall(op, arg))
    /\ nOps' = nOps + 1
    /\ UNCHANGED <<lastCall, reads, ownVars, loopVars, utilVars>>

PoseMove ==
    \E v \in MoveVectors :
        CanCall /\ Node_move(mModelPtr, v) /\ Recorded("move", v) /\ UNCHANGED ret
PosePitch ==
    \E a \in PoseAngles :
        /\ CanCall /\ CanTurn
        /\ Node_pitch(mModelPtr, a) /\ Recorded("pitch", a) /\ UNCHANGED ret
PoseYaw ==
    \E a \in PoseAngles :
        /\ CanCall /\ CanTurn
        /\ Node_yaw(mModelPtr, a) /\ Recorded("yaw", a) /\ UNCHANGED ret
PoseRoll ==
    \E a \in PoseAngles :
        /\ CanCall /\ CanTurn
        /\ Node_roll(mModelPtr, a) /\ Recorded("roll", a) /\ UNCHANGED ret
PoseSetOrientationQuaternion ==
    \E q \in PoseQuats :
        /\ CanCall
        /\ Node_setOrientationQuaternion(mModelPtr, q[1], q[2], q[3], q[4])
        /\ Recorded("setOrientationQuaternion", q)
        /\ UNCHANGED ret
PoseSetTranslationVector ==
    \E v \in PoseVecs :
        /\ CanCall
        /\ Node_setTranslationVector(mModelPtr, v[1], v[2], v[3])
        /\ Recorded("setTranslationVector", v)
        /\ UNCHANGED ret
PoseSetLinearSpeed ==
    \E v \in StepLinearSpeeds :
        /\ CanCall
        /\ Node_setLinearSpeed(mModelPtr, v)
        /\ Recorded("setLinearSpeed", v)
        /\ UNCHANGED ret
PoseSetRotationalSpeed ==
    \E v \in StepRotationalSpeeds :
        /\ CanCall
        /\ Node_setRotationalSpeed(mModelPtr, v)
        /\ Recorded("setRotationalSpeed", v)
        /\ UNCHANGED ret
PoseMoveDeltaTime ==
    \E dt \in StepDeltaTimes :
        /\ CanCall /\ CanStep
        /\ Node_moveDeltaTime(mModelPtr, dt)
        /\ Recorded("moveDeltaTime", dt)
        /\ UNCHANGED ret
PoseGetMatrix ==
    /\ CanCall
    /\ Node_getMatrix(mModelPtr)
    /\ ret' = mMatrix'[mModelPtr]
    /\ Recorded("getMatrix", 0)

NextPose ==
    \/ PoseMove
    \/ PosePitch
    \/ PoseYaw
    \/ PoseRoll
    \/ PoseSetOrientationQuaternion
    \/ PoseSetTranslationVector
    \/ PoseSetLinearSpeed
    \/ PoseSetRotationalSpeed
    \/ PoseMoveDeltaTime
    \/ PoseGetMatrix

SpecPose == Init /\ [][NextPose]_vars

\* ------------------------------------------------------------------ Utils::Timer
\* Intervals the Timer is constructed with ("number of microseconds between ticks").
TimerIntervals == {2, 3}

\* Faulty variant: a tick restarts the interval at the current tick.
Timer_isTimeElapsed_restart(t, aCurrentTickUs) ==
    LET elapsedTimeUs == aCurrentTickUs - t.mStartTickUs
    IN  IF elapsedTimeUs >= t.mIntervalUs
        THEN [timer |-> [t EXCEPT !.mStartTickUs = aCurrentTickUs], bNewTimerTick |-> TRUE]
        ELSE [timer |-> t, bNewTimerTick |-> FALSE]

\* Timer::Timer(aIntervalUs), run while getTickUs() returns now
Timer_new(aIntervalUs, now) ==
    [state |-> "constructed", mElapsedTimeUs |-> 0, mIntervalUs |-> aIntervalUs,
     mStartTickUs |-> now]

\* Timer::isTimeElapsed(aCurrentTickUs): the timer afterwards and the value returned
Timer_isTimeElapsed(t, aCurrentTickUs) ==
    LET elapsedTimeUs == aCurrentTickUs - t.mStartTickUs
    IN  IF elapsedTimeUs >= t.mIntervalUs
        THEN [timer |-> [t EXCEPT !.mStartTickUs = @ + t.mIntervalUs], bNewTimerTick |-> TRUE]
        ELSE [timer |-> t, bNewTimerTick |-> FALSE]

\* ------------------------------------------------------------------ SpecTimer
\* Time passes: the next getTickUs() returns a later tick.
ClockTick ==
    /\ clock < MaxTick
    /\ clock' = clock + 1
    /\ UNCHANGED <<sceneVars, histVars, timer, hmd>>

TimerNew ==
    /\ timer.state = "none"
    /\ \E aIntervalUs \in TimerIntervals : timer' = Timer_new(aIntervalUs, clock)
    /\ UNCHANGED <<sceneVars, histVars, clock, hmd>>

\* A frame reads the clock and asks the timer; hist keeps each call with the start
\* tick before and after it.
IsTimeElapsed ==
    /\ timer.state = "constructed"
    /\ Len(hist) < MaxCalls
    /\ LET r == Timer_isTimeElapsed(timer, clock)
       IN  /\ timer' = r.timer
           /\ hist' = Append(hist, [op |-> "isTimeElapsed", aCurrentTickUs |-> clock,
                                    before |-> timer.mStartTickUs,
                                    after |-> r.timer.mStartTickUs,
                                    ret |-> r.bNewTimerTick])
    /\ UNCHANGED <<sceneVars, clock, hmd>>

NextTimer == ClockTick \/ TimerNew \/ IsTimeElapsed
SpecTimer == Init /\ [][NextTimer]_vars

\* ------------------------------------------------------------------ OculusHMD
DefaultPredictionMs == 30
PredictionLimitMs == 100

\* What OculusHMD::OculusHMD finds: no device, a device without info, no user
\* profile, no sensor, or everything down to the sensor.
HmdFound == {"noHMD", "noInfo", "noProfile", "noSensor", "sensor"}
\* Offsets and values of the prediction calls; orientations (w, x, y, z) the sensor reports.
PredictionOffsets == {-10, -5, 5, 10}
PredictionValues == {20, 50}
SensorOrientations == {<<1, 0, 0, 0>>, <<0, 0, 1, 0>>, <<0, 1, 0, 0>>}

\* OculusHMD::setPrediction(aPredictionDeltaMs); the fusion keeps the prediction in
\* thousandths of a second
OculusHMD_setPrediction(h, aPredictionDeltaMs) ==
    LET h1 == [h EXCEPT !.mPredictionLookaheadMs = aPredictionDeltaMs]
    IN  IF h1.mSensorPtr /\ h1.mSensorFusionPtr
        THEN [h1 EXCEPT !.fusion.prediction = aPredictionDeltaMs]
        ELSE h1

\* OculusHMD::OculusHMD: the sensor fusion exists only when a sensor was found
OculusHMD_new(found) ==
    LET h == [NoHMD EXCEPT !.state = "constructed",
                           !.mPredictionLookaheadMs = DefaultPredictionMs]
    IN  IF found = "sensor"
        THEN OculusHMD_setPrediction(
                 [h EXCEPT !.mSensorPtr = TRUE, !.mSensorFusionPtr = TRUE,
                           !.fusion = FusionNew], h.mPredictionLookaheadMs)
        ELSE h

\* OculusHMD::incrPrediction(aOffset)
OculusHMD_incrPrediction(h, aOffset) ==
    IF PredictionLimitMs > h.mPredictionLookaheadMs
    THEN OculusHMD_setPrediction(
             [h EXCEPT !.mPredictionLookaheadMs = @ + aOffset],
             h.mPredictionLookaheadMs + aOffset)
    ELSE h

\* OculusHMD::resetOrientation(): mSensorFusionPtr->Reset() with no test of the
\* pointer. On a null pointer the behaviour is undefined: the call may end the
\* program or return; every outcome is kept.
OculusHMD_resetOrientation(h) ==
    IF h.mSensorFusionPtr
    THEN {[h EXCEPT !.fusion.orientation = <<1, 0, 0, 0>>]}
    ELSE {[h EXCEPT !.nullDeref = TRUE, !.state = s] : s \in {"constructed", "crashed"}}

\* OculusHMD::getOrientation()
OculusHMD_getOrientation(h) ==
    IF h.mSensorFusionPtr
    THEN LET hmdOrientation == h.fusion.orientation
         IN  Quat(hmdOrientation[1], hmdOrientation[2], hmdOrientation[3], hmdOrientation[4])
    ELSE QuatIdentity

\* ------------------------------------------------------------------ SpecHMD
HmdCalled(op, arg) ==
    [op |-> op, arg |-> arg, before |-> hmd.mPredictionLookaheadMs]

HmdNew ==
    /\ hmd.state = "none"
    /\ \E found \in HmdFound : hmd' = OculusHMD_new(found)
    /\ UNCHANGED <<sceneVars, histVars, clock, timer>>

\* The attached sensor reports a new orientation to the fusion.
HmdSensorUpdate ==
    /\ hmd.state = "constructed"
    /\ hmd.mSensorFusionPtr
    /\ \E o \in SensorOrientations :
           /\ o # hmd.fusion.orientation
           /\ hmd' = [hmd EXCEPT !.fusion.orientation = o]
    /\ UNCHANGED <<sceneVars, histVars, clock, timer>>

HmdSetPrediction ==
    /\ hmd.state = "constructed"
    /\ \E aPredictionDeltaMs \in PredictionValues :
           hmd' = [OculusHMD_setPrediction(hmd, aPredictionDeltaMs)
                      EXCEPT !.call = HmdCalled("setPrediction", aPredictionDeltaMs)]
    /\ UNCHANGED <<sceneVars, histVars, clock, timer>>

HmdIncrPrediction ==
    /\ hmd.state = "constructed"
    /\ \E aOffset \in PredictionOffsets :
           /\ hmd.mPredictionLookaheadMs + aOffset >= DefaultPredictionMs - MaxBelowMs
           /\ hmd' = [OculusHMD_incrPrediction(hmd, aOffset)
                         EXCEPT !.call = HmdCalled("incrPrediction", aOffset)]
    /\ UNCHANGED <<sceneVars, histVars, clock, timer>>

\* Input::checkKeys with the space key down
HmdResetOrientation ==
    /\ hmd.state = "constructed"
    /\ \E h \in OculusHMD_resetOrientation(hmd) :
           hmd' = [h EXCEPT !.call = HmdCalled("resetOrientation", 0)]
    /\ UNCHANGED <<sceneVars, histVars, clock, timer>>

\* Input::displayCallback reads the orientation of the head
HmdGetOrientation ==
    /\ hmd.state = "constructed"
    /\ hmd' = [hmd EXCEPT !.ret = OculusHMD_getOrientation(hmd),
                          !.call = HmdCalled("getOrientation", 0)]
    /\ UNCHANGED <<sceneVars, histVars, clock, timer>>

NextHMD ==
    \/ HmdNew \/ HmdSensorUpdate \/ HmdSetPrediction \/ HmdIncrPrediction
    \/ HmdResetOrientation \/ HmdGetOrientation
SpecHMD == Init /\ [][NextHMD]_vars

\* ------------------------------------------------------------------ claims on Spec
PoseCalls ==
    {"move", "pitch", "yaw", "roll", "setOrientationQuaternion", "setTranslationVector"}

\* C1: every getMatrix() returns translate(T) * rotate(Q) for the translation T and
\* the orientation Q the node has at that read, also when no mutation came before.
C1_ReadIsCurrent ==
    lastCall.op = "getMatrix" =>
        ret = Mat4Mul(translate(Mat4Identity, mTranslationVector[lastCall.node]),
                      mat4_cast(mOrientationQuaternion[lastCall.node]))

\* C1 witness: a read after a turn and a displacement, following an earlier read.
C1_Witness ==
    /\ lastCall.op = "getMatrix"
    /\ reads = 1
    /\ nOps >= 2
    /\ mMatrix[mModelPtr] # Mat4Identity
    /\ mOrientationQuaternion[mModelPtr] # QuatIdentity
    /\ mTranslationVector[mModelPtr] # Vec3Zero
    /\ ret[1][1] # 1
    /\ ret[1][4] # 0

\* C2 (as claimed): a getMatrix() recomputes exactly when the flag is set, leaves the
\* flag false, and a second read with no mutation in between does not recompute.
C2_ReadClearsFlag ==
    lastCall.op = "getMatrix" =>
        /\ ~mbMatrixDirty[lastCall.node]
        /\ (reads = 2 => ~lastCall.recomputed)

\* C3: every call that changes the pose (the six pose calls, and the time step of a
\* node in motion) returns with the flag set.
C3_MutatorsSetDirty ==
    /\ lastCall.op \in PoseCalls => mbMatrixDirty[lastCall.node]
    /\ (lastCall.op = "moveDeltaTime" /\ Physic_isInMotion(mPhysic[lastCall.node]))
           => mbMatrixDirty[lastCall.node]

\* C3 witness: the first call on a new node is a yaw, and the flag is set after it.
C3_Witness ==
    /\ lastCall.op = "yaw"
    /\ nOps = 1
    /\ mOrientationQuaternion[mModelPtr] # QuatIdentity
    /\ mbMatrixDirty[mModelPtr]

\* C4 (as claimed): isInMotion() is true exactly when some component of the stored
\* linear speed or of the stored rotational speed is nonzero.
C4_InMotionIffAnySpeed ==
    \A n \in Nodes :
        Physic_isInMotion(mPhysic[n]) <=>
            (Vec3NonZero(mPhysic[n].mLinearSpeed) \/ Vec3NonZero(mPhysic[n].mRotationalSpeed))

\* ------------------------------------------------------------------ claims on SpecDraw
\* translate(T) * rotate(Q) of node n
PoseMatrix(n) ==
    Mat4Mul(translate(Mat4Identity, mTranslationVector[n]),
            mat4_cast(mOrientationQuaternion[n]))

\* S * M(n1) * ... * M(nk), multiplied on the right from n1 to nk
RECURSIVE ChainProduct(_, _)
ChainProduct(S, chain) ==
    IF chain = <<>> THEN S
    ELSE Mat4Mul(ChainProduct(S, SubSeq(chain, 1, Len(chain) - 1)),
                 PoseMatrix(chain[Len(chain)]))

Events(ev) == {k \in 1..Len(trace) : trace[k].ev = ev}

\* the event the traversal made last, when it is an ev
Last(ev) == {k \in {Len(trace)} : k > 0 /\ trace[k].ev = ev}

\* C5: after Scene.draw returns, top() is the seed it held at the call and the saved
\* stack has the depth it had at the call.
C5_DrawRestoresSeed ==
    drawCall.status = "returned" =>
        /\ MatrixStack_top = drawCall.seed
        /\ Len(mStack) = drawCall.depth

\* C5 witness: a returned draw of a root, its child and its grandchild, whose deepest
\* upload differs from the seed, under a seed that is not the identity.
C5_Witness ==
    /\ drawCall.status = "returned"
    /\ drawCall.seed # Mat4Identity
    /\ \E k \in Events("uniform") : Len(trace[k].chain) = 3 /\ trace[k].m # drawCall.seed

\* C6: when a node's draw begins, the current matrix is the composite transform of
\* its parent (the seed for a root node), whatever was drawn before it.
C6_DrawBeginsFromParent ==
    Running("Node::draw", "enter") =>
        mCurrentMatrix =
            ChainProduct(drawCall.seed, ChainOf(SubSeq(frames, 1, Len(frames) - 1)))

\* C6 witness: the second child of a root begins after its elder sibling, whose own
\* matrix is not the identity, was drawn and left.
C6_Witness ==
    /\ Running("Node::draw", "enter")
    /\ Len(ChainOf(frames)) = 2
    /\ \E k \in Events("leave") :
          /\ Len(trace[k].chain) = 2
          /\ PoseMatrix(trace[k].node) # Mat4Identity
    /\ mCurrentMatrix # Mat4Identity

\* C7: the matrix uploaded for a node whose chain from its root is n1, ..., nk is
\* S * M(n1) * ... * M(nk), S the seed.
C7_UploadIsChainProduct ==
    \A k \in Last("uniform") :
        trace[k].m = ChainProduct(drawCall.seed, trace[k].chain)

\* C7 witness: an upload for a grandchild where multiplying the node's matrix on the
\* left would give another matrix.
C7_Witness ==
    \E k \in Events("uniform") :
        /\ Len(trace[k].chain) = 3
        /\ drawCall.seed # Mat4Identity
        /\ trace[k].m #
              Mat4Mul(PoseMatrix(trace[k].node),
                      ChainProduct(drawCall.seed, SubSeq(trace[k].chain, 1, 2)))

\* the order in which a draw of node n begins nodes, draws meshes and leaves nodes
RECURSIVE ExpectNode(_)
RECURSIVE ExpectList(_, _)
ExpectNode(n) ==
    <<<<"uniform", n, "">>>>
    \o [i \in 1..Len(mMeshesList[n]) |-> <<"mesh", n, mMeshesList[n][i]>>]
    \o ExpectList(mChildrenList[n], 1)
    \o <<<<"leave", n, "">>>>

\* the same for the nodes of a list from index i on
ExpectList(list, i) ==
    IF i > Len(list) THEN <<>> ELSE ExpectNode(list[i]) \o ExpectList(list, i + 1)

Done == [k \in 1..Len(trace) |-> <<trace[k].ev, trace[k].node, trace[k].mesh>>]

\* C8: a node draws its meshes in list order, then its children in list order, each
\* child's whole subtree before the next child; the roots are drawn in list order.
C8_DrawOrder ==
    drawCall.status # "none" =>
        LET expected == ExpectList(mRootNodes, 1)
        IN  /\ Len(Done) <= Len(expected)
            /\ Done = SubSeq(expected, 1, Len(Done))
            /\ drawCall.status = "returned" => Done = expected

\* C8 witness: a returned draw of a node with two different meshes and two children.
C8_Witness ==
    /\ drawCall.status = "returned"
    /\ \E n \in Nodes :
          /\ Len(mMeshesList[n]) = 2
          /\ mMeshesList[n][1] # mMeshesList[n][2]
          /\ Len(mChildrenList[n]) = 2
          /\ Attached(n)

\* ------------------------------------------------------------------ claims on SpecDrawRaise
\* C9: when a mesh draw raises, every Node.draw scope that is left restores the
\* matrix and the depth it was entered with, and the caller finds the composer as it
\* was at the call.
C9_UnwindRestores ==
    /\ \A k \in Last("leave") :
          /\ trace[k].m = trace[k].entry
          /\ trace[k].depth = trace[k].depth0
    /\ drawCall.status = "raised" =>
          /\ mCurrentMatrix = drawCall.seed
          /\ Len(mStack) = drawCall.depth

\* C9 witness: an error raised in a grandchild reached the caller, and the scopes it
\* left had changed the matrix.
C9_Witness ==
    /\ drawCall.status = "raised"
    /\ drawCall.seed # Mat4Identity
    /\ \E k \in Events("leave") :
          /\ trace[k].raised
          /\ Len(trace[k].chain) = 3
          /\ trace[k].before # trace[k].m

\* ------------------------------------------------------------------ claims on SpecStack
\* C10: pop never runs on an empty saved stack, the saved stack holds exactly the
\* matrices the live guards saved, in order, and each pop restores the matrix its
\* guard saved, whatever multiply calls came in between.
C10_PopMatchesPush ==
    /\ ~underflow
    /\ Len(mStack) = Len(frames)
    /\ \A k \in 1..Len(frames) : mStack[k] = frames[k].entry
    /\ \A k \in Last("leave") :
          /\ trace[k].m = trace[k].entry
          /\ trace[k].depth = trace[k].depth0

\* C10 witness: an inner guard is destroyed after multiplies changed the matrix, and
\* restores a matrix that is not the identity.
C10_Witness ==
    /\ Len(frames) >= 1
    /\ \E k \in Events("leave") :
          /\ trace[k].before # trace[k].m
          /\ trace[k].m # Mat4Identity
          /\ trace[k].depth >= 1

\* C23: Scene::draw pushes nothing and multiplies nothing: while the node at depth d
\* (a root node at depth 1) is drawn, past its own push, the stack holds d matrices
\* more than when Scene::draw was entered, and whenever Scene::draw is between two
\* root nodes the stack and the current matrix are those of its entry.
C23_SceneAddsNoLevel ==
    frames # <<>> =>
        /\ (Top.fn = "Node::draw" /\ Top.pc # "enter") =>
               Len(mStack) = drawCall.depth + Len(ChainOf(frames))
        /\ Top.fn = "Scene::draw" =>
               /\ Len(mStack) = drawCall.depth
               /\ mCurrentMatrix = drawCall.seed

\* C23 witness: the child of the second root node is drawn, at depth 2, after the
\* first root node was drawn and returned.
C23_Witness ==
    /\ frames # <<>>
    /\ Top.fn = "Node::draw"
    /\ Top.pc = "meshes"
    /\ Len(ChainOf(frames)) = 2
    /\ frames[1].i = 3
    /\ Len(mStack) = 2
    /\ mCurrentMatrix # drawCall.seed

\* the draws of mesh by node n in the traversal
MeshDraws(n, mesh) ==
    {k \in Events("mesh") : trace[k].node = n /\ trace[k].mesh = mesh}

\* C26: when a mesh draws, the upload made last is that of the node that holds the
\* mesh, and it is that node's composite S * M(n1) * ... * M(nk); after a traversal
\* each node has drawn each of its meshes once, a mesh held by several nodes once for
\* each of them.
C26_MeshDrawnUnderItsNode ==
    /\ \A k \in Last("mesh") :
          \E j \in 1..(k - 1) :
              /\ trace[j].ev = "uniform"
              /\ \A i \in (j + 1)..(k - 1) : trace[i].ev # "uniform"
              /\ trace[j].node = trace[k].node
              /\ trace[j].chain = trace[k].chain
              /\ trace[j].m = ChainProduct(drawCall.seed, trace[k].chain)
              /\ trace[k].m = trace[j].m
    /\ drawCall.status = "returned" =>
          \A n \in Nodes : \A mesh \in Meshes :
              Cardinality(MeshDraws(n, mesh)) =
                  IF Attached(n) THEN Count(mMeshesList[n], mesh) ELSE 0

\* C26 witness: one mesh held by a node and by its child, drawn once under each, the
\* child's draw coming after the upload of the child and not of the parent.
C26_Witness ==
    /\ drawCall.status = "returned"
    /\ \E p \in Nodes : \E c \in Nodes : \E mesh \in Meshes :
          /\ p # c
          /\ Count(mChildrenList[p], c) = 1
          /\ Cardinality(MeshDraws(p, mesh)) = 1
          /\ Cardinality(MeshDraws(c, mesh)) = 1
          /\ \E k \in MeshDraws(c, mesh) :
                trace[k - 1].ev = "uniform" /\ trace[k - 1].node = c

\* ------------------------------------------------------------------ claims on SpecFrame
\* the nodes of the trees of the scene, and the node that holds n in its child list
InScene == {n \in Nodes : Attached(n)}
ParentOf(n) == CHOOSE p \in Nodes : \E i \in 1..Len(mChildrenList[p]) : mChildrenList[p][i] = n
IsRoot(n) == \E i \in 1..Len(mRootNodes) : mRootNodes[i] = n

\* the pose a node's own speed gives it in one step of dt, from the pose it had
OwnStepQ(q, p, dt) ==
    IF Physic_isInMotion(p)
    THEN RollQuat(YawQuat(PitchQuat(q, p.mRotationalSpeed[1] * dt),
                          p.mRotationalSpeed[2] * dt),
                  p.mRotationalSpeed[3] * dt)
    ELSE q
OwnStepT(t, p, dt) ==
    IF Physic_isInMotion(p) THEN VecAdd(t, VecScale(p.mLinearSpeed, dt)) ELSE t

\* C12: when Scene::move(dt) has returned, every node of every tree has advanced by
\* its own speed and by nothing else, whether its ancestors are in motion or not.
C12_MoveVisitsEveryNode ==
    (loop.moved = 1 /\ Snapshot = loop.post /\ loop.drawn = 0) =>
        \A n \in Nodes :
            IF Attached(n)
            THEN /\ loop.post.t[n] = OwnStepT(loop.pre.t[n], mPhysic[n], loop.dt)
                 /\ loop.post.q[n] = OwnStepQ(loop.pre.q[n], mPhysic[n], loop.dt)
            ELSE /\ loop.post.t[n] = loop.pre.t[n]
                 /\ loop.post.q[n] = loop.pre.q[n]

\* C12 witness: a pass has moved a child whose parent is not in motion, and has left
\* in place a node that has no speed.
C12_Witness ==
    /\ loop.moved = 1
    /\ Snapshot = loop.post
    /\ loop.drawn = 0
    /\ \E n \in InScene :
          /\ ~IsRoot(n)
          /\ Physic_isInMotion(mPhysic[n])
          /\ ~Physic_isInMotion(mPhysic[ParentOf(n)])
          /\ loop.post.t[n] # loop.pre.t[n]
          /\ loop.post.t[ParentOf(n)] = loop.pre.t[ParentOf(n)]

\* C18: in a frame Scene::move is called once and has returned before Scene::draw
\* begins; while the scene is drawn no node moves, and the matrix uploaded for a node
\* is the one of the poses the frame's move pass left.
C18_MoveThenDraw ==
    /\ loop.drawn = 1 =>
           /\ loop.moved = 1
           /\ Snapshot = loop.post
    /\ loop.pc = "move" => drawCall.status # "running"
    /\ loop.pc = "return" => (loop.moved = 1 /\ loop.drawn = 1)
    /\ loop.drawn = 1 =>
           \A k \in Last("uniform") :
               trace[k].m = ChainProduct(drawCall.seed, trace[k].chain)

\* C18 witness: in the second frame the matrix of a child is uploaded after the move
\* pass of that frame moved it.
C18_Witness ==
    /\ loop.frame = 1
    /\ loop.drawn = 1
    /\ \E k \in Last("uniform") :
          /\ Len(trace[k].chain) = 2
          /\ loop.post.t[trace[k].node] # loop.pre.t[trace[k].node]

\* ------------------------------------------------------------------ claims on SpecOwn
\* how many times node n is in the root list and the child lists together
Holdings(n) == Count(mRootNodes, n) + CountInChildren(n, NumNodes)

\* every node is in one list at most, and none is below itself
ForestShaped ==
    \A n \in Nodes : Holdings(n) <= 1 /\ n \notin Descendants(n)

C17_NoSharing == ForestShaped

\* C17 as it holds: when every call hands over a node that no list holds yet and that
\* is neither the receiver nor one of its ancestors, every node is in one list at
\* most and none is its own ancestor.
C17_NoSharingWhenDisciplined == ~shared => ForestShaped

\* C17 witness: two calls that follow the rule, a root and a child below it.
C17_Witness ==
    /\ ~shared
    /\ lifetime = "initScene"
    /\ \E r \in Nodes : \E c \in Nodes :
          r # c /\ Count(mRootNodes, r) = 1 /\ Count(mChildrenList[r], c) = 1

\* ------------------------------------------------------------------ claims on SpecPose
\* the last call of the record and the one before it
LastCall == hist[Len(hist)]
PrevCall == hist[Len(hist) - 1]
After(op) == hist # <<>> /\ LastCall.op = op
AfterTwo(op1, op2) == Len(hist) >= 2 /\ PrevCall.op = op1 /\ LastCall.op = op2

\* the pose and the speeds of the model node now
CurQ == mOrientationQuaternion[mModelPtr]
CurT == mTranslationVector[mModelPtr]
CurP == mPhysic[mModelPtr]

\* C11: the time step of a node in motion adds linearSpeed * dt to the translation,
\* not turned by the orientation, and composes pitch, yaw and roll of
\* angularSpeed.x * dt, angularSpeed.y * dt, angularSpeed.z * dt onto the orientation.
C11_TimeStepAdvances ==
    (After("moveDeltaTime") /\ Physic_isInMotion(LastCall.p0)) =>
        LET dt == LastCall.arg
            lin == LastCall.p0.mLinearSpeed
            rot == LastCall.p0.mRotationalSpeed
        IN  /\ CurT = VecAdd(LastCall.t0, VecScale(lin, dt))
            /\ CurQ = RollQuat(YawQuat(PitchQuat(LastCall.q0, rot[1] * dt), rot[2] * dt),
                               rot[3] * dt)

\* C11 witness: a step of a node in motion whose orientation would have turned its
\* linear speed.
C11_Witness ==
    /\ After("moveDeltaTime")
    /\ Physic_isInMotion(LastCall.p0)
    /\ Vec3NonZero(LastCall.p0.mLinearSpeed)
    /\ Mat3MulVec(mat3_cast(LastCall.q0), LastCall.p0.mLinearSpeed)
          # LastCall.p0.mLinearSpeed
    /\ CurT # LastCall.t0

C14_MoveFollowsOrientation ==
    /\ After("move") =>
           /\ CurT = VecAdd(LastCall.t0, Mat3MulVec(mat3_cast(LastCall.q0), LastCall.arg))
           /\ CurQ = LastCall.q0
    /\ (AfterTwo("yaw", "move") /\ Len(hist) = 2
            /\ PrevCall.arg = 1 /\ LastCall.arg = UNIT_Z_FRONT) =>
           /\ CurT[3] = 0
           /\ CurT = <<1, 0, 0>>

\* C14 witness: yaw of a quarter turn on a new node, then move(UNIT_Z_FRONT).
C14_Witness ==
    /\ AfterTwo("yaw", "move")
    /\ Len(hist) = 2
    /\ PrevCall.arg = 1
    /\ LastCall.arg = UNIT_Z_FRONT
    /\ CurT # Vec3Zero

\* C15: on a unit orientation, yaw(a) followed by yaw(-a) gives the orientation back.
C15_YawBackAndForth ==
    (AfterTwo("yaw", "yaw") /\ LastCall.arg = -PrevCall.arg /\ IsUnit(PrevCall.q0)) =>
        CurQ = PrevCall.q0

\* C15 witness: yaw there and back on a node that was turned off the identity first.
C15_Witness ==
    /\ AfterTwo("yaw", "yaw")
    /\ LastCall.arg = -PrevCall.arg
    /\ IsUnit(PrevCall.q0)
    /\ PrevCall.q0 # QuatIdentity
    /\ LastCall.q0 # PrevCall.q0

C20_SettersStoreAsGiven ==
    /\ After("setOrientationQuaternion") =>
           /\ CurQ = [w |-> LastCall.arg[1], x |-> LastCall.arg[2], y |-> LastCall.arg[3],
                      z |-> LastCall.arg[4], d |-> 1]
           /\ CurT = LastCall.t0
    /\ After("setTranslationVector") =>
           /\ CurT = LastCall.arg
           /\ CurQ = LastCall.q0
    /\ AfterTwo("setOrientationQuaternion", "getMatrix") =>
           ret = Mat4Mul(translate(Mat4Identity, CurT),
                         mat4_cast(Quat(PrevCall.arg[1], PrevCall.arg[2], PrevCall.arg[3],
                                        PrevCall.arg[4])))

\* C20 witness: a quaternion of length two set on a node that was turned before, and
\* read; the matrix differs from the one its normalised quaternion gives.
C20_Witness ==
    /\ AfterTwo("setOrientationQuaternion", "getMatrix")
    /\ ~IsUnit(CurQ)
    /\ PrevCall.q0 # QuatIdentity
    /\ ret # Mat4Mul(translate(Mat4Identity, CurT), mat4_cast(QuatNormalize(CurQ)))

\* no speed setter was called on the model node since it was constructed
NoSpeedSet ==
    \A i \in 1..Len(hist) : hist[i].op \notin {"setLinearSpeed", "setRotationalSpeed"}

\* C21: a node on which no speed setter was called is not in motion, and each of its
\* time steps leaves its translation and its orientation as they were; a node that
\* was only stepped is still at the pose of its construction.
C21_FreshNodeStaysPut ==
    NoSpeedSet =>
        /\ ~Physic_isInMotion(CurP)
        /\ After("moveDeltaTime") => (CurQ = LastCall.q0 /\ CurT = LastCall.t0)
        /\ (\A i \in 1..Len(hist) : hist[i].op = "moveDeltaTime") =>
               (CurQ = QuatIdentity /\ CurT = Vec3Zero)

\* C21 witness: a node turned off the identity and moved off the origin by its caller,
\* then stepped twice with no speed set.
C21_Witness ==
    /\ NoSpeedSet
    /\ Len(hist) = 3
    /\ hist[1].op \in {"yaw", "move"}
    /\ AfterTwo("moveDeltaTime", "moveDeltaTime")
    /\ (LastCall.q0 # QuatIdentity \/ LastCall.t0 # Vec3Zero)

\* the axis a turn of the model is about
TurnAxis(op) ==
    IF op = "pitch" THEN UNIT_X_RIGHT ELSE IF op = "yaw" THEN UNIT_Y_UP ELSE UNIT_Z_FRONT

\* C24: on a unit orientation q, pitch(a), yaw(a) and roll(a) give the orientation
\* rotateRightMultiply(q, a, axis) gives for the unit axis X, Y and Z.
C24_TurnIsRightMultiply ==
    (hist # <<>> /\ LastCall.op \in {"pitch", "yaw", "roll"} /\ IsUnit(LastCall.q0)) =>
        CurQ = rotateRightMultiply(LastCall.q0, LastCall.arg, TurnAxis(LastCall.op))

\* C24 witness: a turn of an orientation that has turned the axis, where the offset
\* about the unit axis multiplied on the left gives another orientation.
C24_Witness ==
    /\ hist # <<>>
    /\ LastCall.op \in {"pitch", "yaw", "roll"}
    /\ IsUnit(LastCall.q0)
    /\ QuatRotate(LastCall.q0, TurnAxis(LastCall.op)) # TurnAxis(LastCall.op)
    /\ CurQ # rotateLeftMultiply(LastCall.q0, LastCall.arg, TurnAxis(LastCall.op))

\* the step is a call of op on the model node
Did(op) == hist' # hist /\ hist'[Len(hist')].op = op
\* the step leaves the nodes other than the model as they are
OtherNodesKept ==
    \A n \in Nodes \ {mModelPtr} :
        /\ mTranslationVector'[n] = mTranslationVector[n]
        /\ mOrientationQuaternion'[n] = mOrientationQuaternion[n]
        /\ mbMatrixDirty'[n] = mbMatrixDirty[n]
        /\ mPhysic'[n] = mPhysic[n]

\* C25: move(vector) changes the translation and the dirty flag only; pitch, yaw and
\* roll change the orientation and the dirty flag only; setLinearSpeed and
\* setRotationalSpeed change the motion model only; none of them changes the cached
\* matrix, a child list, a mesh list or another node.
C25_MutatorFrames ==
    [][ /\ Did("move") =>
              /\ UNCHANGED <<mOrientationQuaternion, mPhysic, mMatrix, treeVars>>
              /\ OtherNodesKept
        /\ (Did("pitch") \/ Did("yaw") \/ Did("roll")) =>
              /\ UNCHANGED <<mTranslationVector, mPhysic, mMatrix, treeVars>>
              /\ OtherNodesKept
        /\ (Did("setLinearSpeed") \/ Did("setRotationalSpeed")) =>
              /\ UNCHANGED <<mTranslationVector, mOrientationQuaternion, mbMatrixDirty,
                             mMatrix, treeVars>>
              /\ OtherNodesKept
      ]_vars

\* C25 witness: a speed is set on a node whose flag is clear, then the node is turned
\* and moved, each call changing what it is for.
C25_Witness ==
    /\ Len(hist) = 3
    /\ hist[1].op = "setLinearSpeed" /\ hist[2].p0 # hist[1].p0
    /\ hist[2].op \in {"pitch", "yaw", "roll"} /\ hist[3].q0 # hist[2].q0
    /\ hist[3].op = "move" /\ CurT # hist[3].t0

\* ------------------------------------------------------------------ claims on SpecRead
\* the step is part of a traversal: Renderer::display starts one or one is in progress
InDraw == frames # <<>> \/ frames' # <<>>

\* C22: a getMatrix() and every step of Scene::draw and Node::draw leave every node's
\* orientation, translation, speeds, child list and mesh list as they are, and a
\* getMatrix() that follows another with no mutation between them returns the same
\* matrix.
C22_ReadsAreReadOnly ==
    [][ (GetMatrix \/ InDraw) =>
            /\ UNCHANGED <<mOrientationQuaternion, mTranslationVector, mPhysic,
                           mChildrenList, mMeshesList>>
            /\ (GetMatrix /\ reads >= 1) => ret' = ret
      ]_vars

\* C22 witness: a second read with no mutation since the first, of a model that was
\* turned, has a speed and a child, in a scene that was drawn.
C22_Witness ==
    /\ reads = 2
    /\ lastCall.op = "getMatrix"
    /\ ret # Mat4Identity
    /\ drawCall.status = "returned"
    /\ mPhysic[mModelPtr] # PhysicNew
    /\ mChildrenList[mModelPtr] # <<>>

\* ------------------------------------------------------------------ termination (SpecFrame)
\* the uploads of node n in the traversal
Uploads(n) == {k \in Events("uniform") : trace[k].node = n}

\* the events a traversal of the scene makes: an upload and a leave for every node,
\* and a draw for every mesh of every node
RECURSIVE MeshesUpTo(_)
MeshesUpTo(n) ==
    IF n = 0 THEN 0
    ELSE (IF Attached(n) THEN Len(mMeshesList[n]) ELSE 0) + MeshesUpTo(n - 1)
TotalEvents == 2 * Cardinality(InScene) + MeshesUpTo(NumNodes)

\* what is left of a traversal: three for every event to come, and the steps the
\* running call takes before its next event
DrawRank ==
    IF frames = <<>> THEN 0
    ELSE 3 * (TotalEvents - Len(trace))
         + (IF Top.pc = "meshes" THEN 2 ELSE IF Top.pc = "enter" THEN 0 ELSE 1)

\* in a traversal each node is begun once at most, and after each of its ancestors
C27_DrawVisits ==
    /\ \A k \in Last("uniform") :
          /\ \A j \in 1..(k - 1) : ~(trace[j].ev = "uniform" /\ trace[j].node = trace[k].node)
          /\ \A a \in 1..(Len(trace[k].chain) - 1) :
                \E j \in 1..(k - 1) :
                    trace[j].ev = "uniform" /\ trace[j].node = trace[k].chain[a]
    /\ drawCall.status = "returned" =>
          \A n \in Nodes : Cardinality(Uploads(n)) = IF Attached(n) THEN 1 ELSE 0

\* a pass of Scene::move has stepped every node once, not twice
C27_MoveVisits ==
    (loop.moved = 1 /\ loop.drawn = 0) =>
        \A n \in Nodes :
            loop.post.t[n] =
                IF Attached(n) THEN OwnStepT(loop.pre.t[n], mPhysic[n], loop.dt)
                ELSE loop.pre.t[n]

\* C27: on a forest, each step of Scene::draw brings it nearer its return (the rank
\* of what is left goes down and stays a natural number, the return leaves none), and
\* each step of Scene::move goes to the next root node or returns; the draw uploads
\* once for every node, for a node before any of its descendants, and the move steps
\* every node once.
C27_TraversalsTerminate ==
    /\ [](C27_DrawVisits /\ C27_MoveVisits)
    /\ [][ /\ frames # <<>> => (DrawRank' < DrawRank /\ DrawRank' >= 0)
           /\ (frames # <<>> /\ frames' = <<>>) =>
                  (drawCall'.status = "returned" /\ Len(trace) = TotalEvents)
           /\ (loop.pc = "move" /\ loop.i >= 1) =>
                  \/ /\ loop'.pc = "move"
                     /\ loop'.i = loop.i + 1
                     /\ loop.i <= Len(mRootNodes)
                  \/ /\ loop'.pc = "display"
                     /\ loop'.moved = 1
                     /\ loop.i = Len(mRootNodes) + 1
         ]_vars

\* C27 witness: a frame has moved and drawn a forest of two trees, one of them a root
\* with a child in motion below it.
C27_Witness ==
    /\ loop.moved = 1
    /\ loop.drawn = 1
    /\ drawCall.status = "returned"
    /\ Len(mRootNodes) = 2
    /\ Len(trace) = TotalEvents
    /\ \E n \in InScene :
          /\ ~IsRoot(n)
          /\ loop.post.t[n] # loop.pre.t[n]
          /\ Cardinality(Uploads(n)) = 1

\* ------------------------------------------------------------------ claims on SpecTimer
\* true returns among the first i calls
TruesUpTo(i) == Cardinality({j \in 1..i : hist[j].ret})

\* C28: with tick arguments that never decrease, isTimeElapsed(t) returns true exactly
\* when t - startTick >= interval; a true return advances startTick by exactly one
\* interval and a false return leaves it as it was; after a stall of k intervals the
\* next k calls all return true; and up to any call at tick t the number of true
\* returns is at most (t - t0) / interval, t0 being the tick of construction.
C28_TimerTicks ==
    \A i \in 1..Len(hist) :
        LET c == hist[i]
            t0 == hist[1].before
            elapsed == c.aCurrentTickUs - c.before
        IN  /\ c.ret = (elapsed >= timer.mIntervalUs)
            /\ c.after = IF c.ret THEN c.before + timer.mIntervalUs ELSE c.before
            /\ (i < Len(hist)) => /\ hist[i + 1].before = c.after
                                  /\ hist[i + 1].aCurrentTickUs >= c.aCurrentTickUs
            /\ \A k \in 1..MaxCalls :
                   (elapsed >= k * timer.mIntervalUs)
                       => \A j \in i..(i + k - 1) : (j <= Len(hist)) => hist[j].ret
            /\ TruesUpTo(i) <= (c.aCurrentTickUs - t0) \div timer.mIntervalUs
            /\ c.after = t0 + TruesUpTo(i) * timer.mIntervalUs

\* reached: a stall of two intervals or more answered by two true returns in a row,
\* then a false return once the timer has caught up
C28_Witness ==
    \E i \in 1..(Len(hist) - 2) :
        /\ hist[i].aCurrentTickUs - hist[i].before >= 2 * timer.mIntervalUs
        /\ hist[i].ret /\ hist[i + 1].ret /\ ~hist[i + 2].ret
        /\ hist[i + 1].aCurrentTickUs = hist[i].aCurrentTickUs

\* ------------------------------------------------------------------ claims on SpecHMD
\* the OculusHMD was constructed without a sensor: it holds no sensor fusion
NoFusion == (hmd.state # "none") /\ ~hmd.mSensorFusionPtr

\* C29: when no sensor was found at construction, every operation the input loop can
\* reach is safe: getOrientation() returns the identity quaternion, setPrediction only
\* records the value, and resetOrientation() does not dereference the absent sensor
\* fusion (the program goes on).
C29_SafeWithoutSensor ==
    NoFusion =>
        /\ ~hmd.nullDeref
        /\ hmd.state = "constructed"
        /\ (hmd.call.op = "getOrientation") => (hmd.ret = QuatIdentity)
        /\ (hmd.call.op = "setPrediction")
               => /\ hmd.mPredictionLookaheadMs = hmd.call.arg
                  /\ hmd.fusion = FusionNew

\* C29, the part that holds: without a sensor, getOrientation() returns the identity
\* and setPrediction only records the value.
C29_ReadAndPredictionSafe ==
    (NoFusion /\ ~hmd.nullDeref) =>
        /\ (hmd.call.op = "getOrientation") => (hmd.ret = QuatIdentity)
        /\ (hmd.call.op = "setPrediction")
               => /\ hmd.mPredictionLookaheadMs = hmd.call.arg
                  /\ hmd.fusion = FusionNew

\* C30: every incrPrediction(offset) changes the prediction lookahead by offset, for
\* positive and negative offsets, from every lookahead value that can be reached.
C30_IncrAddsOffset ==
    (hmd.call.op = "incrPrediction")
        => (hmd.mPredictionLookaheadMs = hmd.call.before + hmd.call.arg)

\* C30, the part that holds: below the limit of 100 ms the call adds the offset, and
\* from the limit on it changes nothing.
C30_IncrBelowLimit ==
    (hmd.call.op = "incrPrediction")
        => (hmd.mPredictionLookaheadMs =
               IF hmd.call.before < PredictionLimitMs
               THEN hmd.call.before + hmd.call.arg
               ELSE hmd.call.before)

====
